---- MODULE Spec2Model ----
(***************************************************************************)
(* RAGScope question inspector: the relation-matrix resolver (relAt), the  *)
(* irrelevance predicate, the per-chunk / per-claim status classifiers and *)
(* the inspector's chunk summary, modelled from                            *)
(*   frontend/src/utils/relations.ts                                       *)
(*   frontend/src/components/QuestionInspector.tsx                         *)
(*                                                                         *)
(* JavaScript values are modelled as follows.                              *)
(*   - a relation cell is a string; the JS value undefined (and null, which*)
(*     every consumer treats alike) is the string Undefined;               *)
(*   - a matrix row is a record [isArr, cells]: an array of cells, or a    *)
(*     non-array value (isArr = FALSE);                                    *)
(*   - a matrix is a record [isArr, rows]: an array of rows, or a non-array*)
(*     value (null, a string, an object);                                  *)
(*   - JS indices are 0-based, TLA+ sequences 1-based: At and CellAt do the*)
(*     shift and return undefined out of range, as JS indexing does.       *)
(***************************************************************************)
EXTENDS Integers, Sequences, FiniteSets, TLC

VARIABLES
    resolver,     \* harness of relAt: its inputs and the table of its results
    relevance,    \* harness of isIrrelevantFromCounts / isIrrelevantFromSets
    disposition,  \* harness of mapDirectStatuses
    question,     \* QuestionInspector's question prop
    ui,           \* QuestionInspector's React state
    view,         \* what QuestionInspector's render computed from question and ui
    overlay,      \* ClaimChunkOverlay's React state and the hover listeners it attached
    clicks,       \* number of inspector buttons pressed so far
    extraction    \* harness of extractClaims

vars == <<resolver, relevance, disposition, question, ui, view, overlay, clicks,
          extraction>>

(***************************************************************************)
(* Bounds of the model.                                                    *)
(***************************************************************************)
MaxDim == 2        \* resolver harness: rows and cells per row of a matrix

(***************************************************************************)
(* Values.                                                                 *)
(***************************************************************************)
Undefined == "undefined"
Entailment == "Entailment"
Contradiction == "Contradiction"
Neutral == "Neutral"

\* An optional count parameter that was not passed (typeof x !== 'number').
NoCount == -1

NonArray == [isArr |-> FALSE, cells |-> <<>>]
Arr(cells) == [isArr |-> TRUE, cells |-> cells]
NonArrayMatrix == [isArr |-> FALSE, rows |-> <<>>]
Mat(rows) == [isArr |-> TRUE, rows |-> rows]

\* rows[i] of JS: the row, or undefined (a non-array) out of range.
At(rows, i) == IF i >= 0 /\ i < Len(rows) THEN rows[i + 1] ELSE NonArray

\* row[i] of JS, for a row that is an array.
CellAt(row, i) == IF i >= 0 /\ i < Len(row.cells) THEN row.cells[i + 1] ELSE Undefined

IsNumber(count) == count # NoCount

(***************************************************************************)
(* Variants of relAt used to show that the resolver claims depend on it.   *)
(***************************************************************************)
\* The rows-are-claims test (lines 9-12) made before the rows-are-chunks
\* test (lines 5-8).
relAt_ClaimsFirst(matrix, chunkIdx, claimIdx, chunkCount, claimCount) ==
    IF ~matrix.isArr THEN Undefined
    ELSE
      LET outer == Len(matrix.rows)
          byChunkRow == At(matrix.rows, chunkIdx)
          byClaimRow == At(matrix.rows, claimIdx)
          first == At(matrix.rows, 0)
      IN  IF IsNumber(claimCount) /\ outer = claimCount /\ byClaimRow.isArr
            THEN CellAt(byClaimRow, chunkIdx)
          ELSE IF IsNumber(chunkCount) /\ outer = chunkCount /\ byChunkRow.isArr
            THEN CellAt(byChunkRow, claimIdx)
          ELSE IF first.isArr /\ IsNumber(claimCount)
                  /\ Len(first.cells) = claimCount /\ byChunkRow.isArr
            THEN CellAt(byChunkRow, claimIdx)
          ELSE IF first.isArr /\ IsNumber(chunkCount)
                  /\ Len(first.cells) = chunkCount /\ byClaimRow.isArr
            THEN CellAt(byClaimRow, chunkIdx)
          ELSE IF byChunkRow.isArr /\ Len(byChunkRow.cells) > claimIdx
            THEN CellAt(byChunkRow, claimIdx)
          ELSE IF byClaimRow.isArr /\ Len(byClaimRow.cells) > chunkIdx
            THEN CellAt(byClaimRow, chunkIdx)
          ELSE Undefined

\* The rows-are-claims branches (lines 9-12 and 19-22) index the matrix
\* [chunkIdx][claimIdx], as the rows-are-chunks branches do.
relAt_NoTranspose(matrix, chunkIdx, claimIdx, chunkCount, claimCount) ==
    IF ~matrix.isArr THEN Undefined
    ELSE
      LET outer == Len(matrix.rows)
          byChunkRow == At(matrix.rows, chunkIdx)
          byClaimRow == At(matrix.rows, claimIdx)
          first == At(matrix.rows, 0)
      IN  IF IsNumber(chunkCount) /\ outer = chunkCount /\ byChunkRow.isArr
            THEN CellAt(byChunkRow, claimIdx)
          ELSE IF IsNumber(claimCount) /\ outer = claimCount /\ byChunkRow.isArr
            THEN CellAt(byChunkRow, claimIdx)
          ELSE IF first.isArr /\ IsNumber(claimCount)
                  /\ Len(first.cells) = claimCount /\ byChunkRow.isArr
            THEN CellAt(byChunkRow, claimIdx)
          ELSE IF first.isArr /\ IsNumber(chunkCount)
                  /\ Len(first.cells) = chunkCount /\ byChunkRow.isArr
            THEN CellAt(byChunkRow, claimIdx)
          ELSE IF byChunkRow.isArr /\ Len(byChunkRow.cells) > claimIdx
            THEN CellAt(byChunkRow, claimIdx)
          ELSE IF byClaimRow.isArr /\ Len(byClaimRow.cells) > chunkIdx
            THEN CellAt(byClaimRow, chunkIdx)
          ELSE Undefined

(***************************************************************************)
(* relAt (relations.ts:1-32).  No step of it can throw on the values of the *)
(* model, so the catch branch (undefined) adds no outcome.                 *)
(***************************************************************************)
relAt(matrix, chunkIdx, claimIdx, chunkCount, claimCount) ==
    IF ~matrix.isArr THEN Undefined
    ELSE
      LET outer == Len(matrix.rows)
          byChunkRow == At(matrix.rows, chunkIdx)
          byClaimRow == At(matrix.rows, claimIdx)
          first == At(matrix.rows, 0)
      IN  IF IsNumber(chunkCount) /\ outer = chunkCount /\ byChunkRow.isArr
            THEN CellAt(byChunkRow, claimIdx)
          ELSE IF IsNumber(claimCount) /\ outer = claimCount /\ byClaimRow.isArr
            THEN CellAt(byClaimRow, chunkIdx)
          ELSE IF first.isArr /\ IsNumber(claimCount)
                  /\ Len(first.cells) = claimCount /\ byChunkRow.isArr
            THEN CellAt(byChunkRow, claimIdx)
          ELSE IF first.isArr /\ IsNumber(chunkCount)
                  /\ Len(first.cells) = chunkCount /\ byClaimRow.isArr
            THEN CellAt(byClaimRow, chunkIdx)
          ELSE IF byChunkRow.isArr /\ Len(byChunkRow.cells) > claimIdx
            THEN CellAt(byChunkRow, claimIdx)
          ELSE IF byClaimRow.isArr /\ Len(byClaimRow.cells) > chunkIdx
            THEN CellAt(byClaimRow, chunkIdx)
          ELSE Undefined

(***************************************************************************)
(* Resolver harness: the inputs relAt is called with.                      *)
(***************************************************************************)
\* Cell values of the harness matrices; relAt never inspects a cell.
ResolverCells == {Entailment, Contradiction}

SeqsUpTo(S, n) == UNION {[1..k -> S] : k \in 0..n}

ResolverRows == {NonArray} \cup {Arr(c) : c \in SeqsUpTo(ResolverCells, MaxDim)}

\* Every matrix of at most MaxDim rows, jagged and malformed ones included.
ResolverMatrices ==
    {NonArrayMatrix} \cup {Mat(r) : r \in SeqsUpTo(ResolverRows, MaxDim)}

ResolverCounts == {NoCount} \cup (0..MaxDim)

\* Coordinates queried: the valid ones and one step out of range either way.
Coord == -1..MaxDim

IsRect(matrix, nRows, nCols) ==
    /\ matrix.isArr
    /\ Len(matrix.rows) = nRows
    /\ \A r \in 1..nRows : matrix.rows[r].isArr /\ Len(matrix.rows[r].cells) = nCols

\* The same logical matrix supplied with rows and columns exchanged.
Transpose(matrix, nRows, nCols) ==
    Mat([c \in 1..nCols |-> Arr([r \in 1..nRows |-> matrix.rows[r].cells[c]])])

ResolverIdle == [phase |-> "idle"]
RelevanceIdle == [phase |-> "idle"]

\* The matrix is the logical chunkCount x claimCount matrix, rows = chunks.
WellShaped(r) ==
    /\ IsNumber(r.chunkCount) /\ IsNumber(r.claimCount)
    /\ IsRect(r.matrix, r.chunkCount, r.claimCount)

\* The matrix as a producer that writes rows = claims supplies it.
Transposed(r) ==
    IF WellShaped(r) /\ r.chunkCount >= 1 /\ r.claimCount >= 1
    THEN Transpose(r.matrix, r.chunkCount, r.claimCount)
    ELSE r.matrix

ResolverInit ==
    \E m \in ResolverMatrices, cc \in ResolverCounts, kc \in ResolverCounts :
        resolver = [phase |-> "input", matrix |-> m, chunkCount |-> cc,
                    claimCount |-> kc, table |-> <<>>, tableT |-> <<>>]

\* A caller queries the resolver at every coordinate, on the matrix as given
\* (table) and on the same matrix supplied transposed (tableT).
Resolve ==
    /\ resolver.phase = "input"
    /\ resolver' = [resolver EXCEPT
         !.phase = "resolved",
         !.table = [p \in Coord \X Coord |->
                      relAt(resolver.matrix, p[1], p[2],
                            resolver.chunkCount, resolver.claimCount)],
         !.tableT = [p \in Coord \X Coord |->
                      relAt(Transposed(resolver), p[1], p[2],
                            resolver.chunkCount, resolver.claimCount)]]
    /\ UNCHANGED <<relevance, disposition, question, ui, view, overlay, clicks, extraction>>


(***************************************************************************)
(* Claims about the resolver, checked under SpecRelAt.                     *)
(***************************************************************************)
Resolved == resolver.phase = "resolved"

ValidCoords(r) == (0..(r.chunkCount - 1)) \X (0..(r.claimCount - 1))

\* m[i][j] of the logical matrix.
Logical(r, p) == r.matrix.rows[p[1] + 1].cells[p[2] + 1]

\* C1 (as stated): for every logical chunkCount x claimCount matrix and every
\* valid coordinate, the resolver returns the same value on the transposed
\* matrix as on the matrix itself, for all count pairs, chunkCount =
\* claimCount included.
C1_TransposeAllCounts ==
    (Resolved /\ WellShaped(resolver)) =>
        \A p \in ValidCoords(resolver) : resolver.tableT[p] = resolver.table[p]

\* C1 (amended): the same, for every count pair with chunkCount # claimCount.
C1_TransposeDistinctCounts ==
    (Resolved /\ WellShaped(resolver)
        /\ resolver.chunkCount # resolver.claimCount) =>
        \A p \in ValidCoords(resolver) : resolver.tableT[p] = resolver.table[p]

\* A non-square logical matrix with two different cells was resolved both ways.
C1_Witness ==
    /\ Resolved /\ WellShaped(resolver)
    /\ resolver.chunkCount # resolver.claimCount
    /\ \E p, q \in ValidCoords(resolver) :
          /\ Logical(resolver, p) # Logical(resolver, q)
          /\ resolver.tableT[p] = Logical(resolver, p)
          /\ resolver.tableT[q] = Logical(resolver, q)

\* C2 (as stated): relAt returns undefined when the matrix is a non-array or
\* an empty array, and at every coordinate that is out of range for a
\* well-formed chunkCount x claimCount matrix; an out-of-range coordinate
\* never yields another cell's value.
C2_TotalSafety ==
    Resolved =>
        /\ (~resolver.matrix.isArr \/ resolver.matrix.rows = <<>>) =>
              \A p \in Coord \X Coord : resolver.table[p] = Undefined
        /\ WellShaped(resolver) =>
              \A p \in (Coord \X Coord) \ ValidCoords(resolver) :
                  resolver.table[p] = Undefined

\* C3: for a rectangular matrix of chunkCount rows of claimCount cells and
\* every valid (i, j), relAt(m, i, j, chunkCount, claimCount) = m[i][j].
C3_ResolverSymmetry ==
    (Resolved /\ WellShaped(resolver)) =>
        \A p \in ValidCoords(resolver) : resolver.table[p] = Logical(resolver, p)

\* A square matrix that differs from its transpose was resolved.
C3_Witness ==
    /\ Resolved /\ WellShaped(resolver)
    /\ resolver.chunkCount = resolver.claimCount
    /\ \E p \in ValidCoords(resolver) :
          Logical(resolver, p) # Logical(resolver, <<p[2], p[1]>>)

DispositionIdle == [phase |-> "idle"]
QuestionIdle == [loaded |-> FALSE]
UiIdle == [mounted |-> FALSE]
ViewIdle == [rendered |-> FALSE]
OverlayIdle == [mounted |-> FALSE]
ExtractionIdle == [phase |-> "idle"]

InitRelAt ==
    /\ ResolverInit
    /\ relevance = RelevanceIdle
    /\ disposition = DispositionIdle
    /\ question = QuestionIdle
    /\ ui = UiIdle
    /\ view = ViewIdle
    /\ overlay = OverlayIdle
    /\ clicks = 0
    /\ extraction = ExtractionIdle

NextRelAt == Resolve

SpecRelAt == InitRelAt /\ [][NextRelAt]_vars

(***************************************************************************)
(* The irrelevance predicate (relations.ts:34-56).  A JS value passed as a *)
(* count is a record [kind, n]: a number n, or undefined, null, NaN or a   *)
(* non-numeric string (n = 0 then).                                        *)
(***************************************************************************)
Num(n) == [kind |-> "number", n |-> n]
JsUndefined == [kind |-> "undefined", n |-> 0]
JsNull == [kind |-> "null", n |-> 0]
JsNaN == [kind |-> "NaN", n |-> 0]
JsText == [kind |-> "string", n |-> 0]

\* Number(x): NaN for undefined, NaN itself and non-numeric text; 0 for null.
ToNumber(x) ==
    CASE x.kind = "number" -> [nan |-> FALSE, n |-> x.n]
      [] x.kind = "null" -> [nan |-> FALSE, n |-> 0]
      [] OTHER -> [nan |-> TRUE, n |-> 0]

\* v || 0 for a number v: 0 when v is NaN or 0.
OrZero(v) == IF v.nan \/ v.n = 0 THEN 0 ELSE v.n

\* Math.max(0, n)
Max0(n) == IF n > 0 THEN n ELSE 0

\* The predicate without Math.max(0, ...).
isIrrelevantFromCounts_NoClamp(gtEntailments, gtNeutrals, gtContradictions) ==
    LET e == OrZero(ToNumber(gtEntailments))
        n == OrZero(ToNumber(gtNeutrals))
        c == OrZero(ToNumber(gtContradictions))
    IN  e = 0 /\ c = 0 /\ n > 0

isIrrelevantFromCounts(gtEntailments, gtNeutrals, gtContradictions) ==
    LET e == Max0(OrZero(ToNumber(gtEntailments)))
        n == Max0(OrZero(ToNumber(gtNeutrals)))
        c == Max0(OrZero(ToNumber(gtContradictions)))
    IN  e = 0 /\ c = 0 /\ n > 0

\* Array.isArray(x) ? x.length : 0
LengthOrZero(x) == IF x.isArr THEN Len(x.cells) ELSE 0

\* The sets predicate without the n > 0 test.
isIrrelevantFromSets_NoNeutralTest(sets) ==
    IF ~sets.hasGt THEN FALSE
    ELSE LengthOrZero(sets.gt.entailments) = 0
         /\ LengthOrZero(sets.gt.contradictions) = 0

\* sets is [hasGt, gt]: sets?.gt is undefined when hasGt is FALSE.
isIrrelevantFromSets(sets) ==
    LET e == IF sets.hasGt THEN LengthOrZero(sets.gt.entailments) ELSE 0
        n == IF sets.hasGt THEN LengthOrZero(sets.gt.neutrals) ELSE 0
        c == IF sets.hasGt THEN LengthOrZero(sets.gt.contradictions) ELSE 0
    IN  e = 0 /\ c = 0 /\ n > 0

(***************************************************************************)
(* Relevance harness: the predicate called with raw counts, or with claim  *)
(* sets and with the lengths of the same sets.                             *)
(***************************************************************************)
MaxCount == 5      \* largest count passed to isIrrelevantFromCounts
MaxSetLen == 2     \* largest claim set passed to isIrrelevantFromSets

CountInputs ==
    {Num(k) : k \in -1..MaxCount} \cup {JsUndefined, JsNull, JsNaN, JsText}

\* A claim set: an array of claims, or a missing / non-array value.
SetInputs == {NonArray} \cup {Arr([i \in 1..k |-> "claim"]) : k \in 0..MaxSetLen}

GtSets(e, n, c) == [entailments |-> e, neutrals |-> n, contradictions |-> c]

\* x.length as the caller of the counts path reads it: undefined on a value
\* that is no array.
LengthOf(x) == IF x.isArr THEN Num(Len(x.cells)) ELSE JsUndefined

RelevanceInit ==
    \/ \E e \in CountInputs, n \in CountInputs, c \in CountInputs :
          relevance = [phase |-> "input", mode |-> "counts",
                       e |-> e, n |-> n, c |-> c,
                       sets |-> [hasGt |-> FALSE, gt |-> GtSets(NonArray, NonArray, NonArray)],
                       out |-> FALSE, outCounts |-> FALSE]
    \/ \E g \in BOOLEAN, e \in SetInputs, n \in SetInputs, c \in SetInputs :
          relevance = [phase |-> "input", mode |-> "sets",
                       e |-> LengthOf(e), n |-> LengthOf(n), c |-> LengthOf(c),
                       sets |-> [hasGt |-> g, gt |-> GtSets(e, n, c)],
                       out |-> FALSE, outCounts |-> FALSE]

CallFromCounts ==
    /\ relevance.phase = "input" /\ relevance.mode = "counts"
    /\ relevance' = [relevance EXCEPT
         !.phase = "called",
         !.out = isIrrelevantFromCounts(relevance.e, relevance.n, relevance.c)]
    /\ UNCHANGED <<resolver, disposition, question, ui, view, overlay, clicks, extraction>>

\* Both paths on the same underlying claim sets.
CallFromSets ==
    /\ relevance.phase = "input" /\ relevance.mode = "sets"
    /\ relevance' = [relevance EXCEPT
         !.phase = "called",
         !.out = isIrrelevantFromSets(relevance.sets),
         !.outCounts =
            IF relevance.sets.hasGt
            THEN isIrrelevantFromCounts(relevance.e, relevance.n, relevance.c)
            ELSE isIrrelevantFromCounts(JsUndefined, JsUndefined, JsUndefined)]
    /\ UNCHANGED <<resolver, disposition, question, ui, view, overlay, clicks, extraction>>

InitRelevance ==
    /\ RelevanceInit
    /\ resolver = ResolverIdle
    /\ disposition = DispositionIdle
    /\ question = QuestionIdle
    /\ ui = UiIdle
    /\ view = ViewIdle
    /\ overlay = OverlayIdle
    /\ clicks = 0
    /\ extraction = ExtractionIdle

NextRelevance == CallFromCounts \/ CallFromSets

SpecRelevance == InitRelevance /\ [][NextRelevance]_vars

(***************************************************************************)
(* Claims about the irrelevance predicate, checked under SpecRelevance.    *)
(***************************************************************************)
\* The clamping the predicate is specified with: a negative, missing or
\* non-numeric input counts as 0.
Clamp(x) == IF x.kind = "number" /\ x.n > 0 THEN x.n ELSE 0

CalledWith(e, n, c) ==
    /\ relevance.phase = "called" /\ relevance.mode = "counts"
    /\ relevance.e = e /\ relevance.n = n /\ relevance.c = c

\* C6: isIrrelevantFromCounts(e, n, c) is true iff, with every argument
\* clamped to a non-negative number, e = 0 and c = 0 and n > 0; it is false
\* for (0,0,0), (1,0,0) and (0,5,1).
C6_IrrelevancePredicate ==
    /\ (relevance.phase = "called" /\ relevance.mode = "counts") =>
          (relevance.out <=>
              (Clamp(relevance.e) = 0 /\ Clamp(relevance.c) = 0
                  /\ Clamp(relevance.n) > 0))
    /\ CalledWith(Num(0), Num(0), Num(0)) => ~relevance.out
    /\ CalledWith(Num(1), Num(0), Num(0)) => ~relevance.out
    /\ CalledWith(Num(0), Num(5), Num(1)) => ~relevance.out

\* The predicate answered true on a negative and a missing count.
C6_Witness ==
    /\ relevance.phase = "called" /\ relevance.mode = "counts"
    /\ relevance.e = Num(-1) /\ relevance.c = JsUndefined
    /\ relevance.n = Num(5)
    /\ relevance.out

\* A set that is missing or no array, read as the empty set.
AsArray(x) == IF x.isArr THEN x ELSE Arr(<<>>)

\* C8: on the same claim sets the sets path and the counts path (count =
\* array length) give the same answer, and a missing or non-array set
\* behaves as count 0 in both.
C8_PathsAgree ==
    (relevance.phase = "called" /\ relevance.mode = "sets") =>
        LET g == relevance.sets.gt
            e == LengthOrZero(AsArray(g.entailments))
            n == LengthOrZero(AsArray(g.neutrals))
            c == LengthOrZero(AsArray(g.contradictions))
            asZero == relevance.sets.hasGt /\ e = 0 /\ c = 0 /\ n > 0
        IN  /\ relevance.out = relevance.outCounts
            /\ relevance.out = asZero
            /\ relevance.outCounts = asZero

\* Both paths answered true on sets of which one is no array.
C8_Witness ==
    /\ relevance.phase = "called" /\ relevance.mode = "sets"
    /\ relevance.sets.hasGt
    /\ ~relevance.sets.gt.entailments.isArr
    /\ relevance.sets.gt.contradictions = Arr(<<>>)
    /\ Len(relevance.sets.gt.neutrals.cells) >= 1
    /\ relevance.out /\ relevance.outCounts

(***************************************************************************)
(* Claim dispositions from the direct claim-level relation arrays          *)
(* (QuestionInspector.tsx:149-166).  An entry of such an array is a record *)
(* [isArr, cells, v]: a list of cells, or the single cell v.               *)
(***************************************************************************)
Single(v) == [isArr |-> FALSE, cells |-> <<>>, v |-> v]
List(cells) == [isArr |-> TRUE, cells |-> cells, v |-> Undefined]

\* String(rel ?? ''): undefined and null become the empty string.
StringOf(rel) == IF rel = Undefined THEN "" ELSE rel

\* s.toLowerCase() on the labels of the model.
ToLowerCase(s) ==
    CASE s \in {"Entailment", "ENTAILMENT", "entailment"} -> "entailment"
      [] s \in {"Contradiction", "CONTRADICTION", "contradiction"} -> "contradiction"
      [] s \in {"Neutral", "NEUTRAL", "neutral"} -> "neutral"
      [] OTHER -> s

mapRelToStatus(rel) ==
    LET s == ToLowerCase(StringOf(rel))
    IN  IF s = "entailment" THEN "entailed"
        ELSE IF s = "contradiction" THEN "contradiction"
        ELSE "neutral"

\* arr[i] of JS on the relations array.
EntryAt(rows, i) == IF i >= 0 /\ i < Len(rows) THEN rows[i + 1] ELSE Single(Undefined)

mapDirectStatuses(relations, targetLen) ==
    LET arr == IF relations.isArr THEN relations.rows ELSE <<>>
    IN  [k \in 1..targetLen |->
           LET raw == EntryAt(arr, k - 1)
               rel == IF raw.isArr THEN CellAt(raw, 0) ELSE raw.v
           IN  mapRelToStatus(rel)]

(***************************************************************************)
(* QuestionInspector: per-chunk claim sets and status classification       *)
(* (QuestionInspector.tsx:192-219, 286-320) and the chunk summary and      *)
(* chunk rows of its render (QuestionInspector.tsx:486-500, 602-617).      *)
(*                                                                         *)
(* question is [chunkCount, gtClaims, respClaims, retrieved2answer,        *)
(* retrieved2response]: the length of retrieved_context, the extracted     *)
(* claim lists (non-blank strings) and the two relation matrices.          *)
(***************************************************************************)
\* !rel of JS on a cell: undefined, null and the empty string are falsy.
Falsy(rel) == rel \in {Undefined, ""}

EmptySets == GtSets(Arr(<<>>), Arr(<<>>), Arr(<<>>))

pushByRel(target, rel, claim) ==
    IF claim = "" \/ Falsy(rel) THEN target
    ELSE IF rel = Entailment
      THEN [target EXCEPT !.entailments.cells = Append(@, claim)]
    ELSE IF rel = Contradiction
      THEN [target EXCEPT !.contradictions.cells = Append(@, claim)]
    ELSE IF rel = Neutral
      THEN [target EXCEPT !.neutrals.cells = Append(@, claim)]
    ELSE target

\* Array.isArray(m) ? m : []
ArrayOrEmpty(m) == IF m.isArr THEN m ELSE Mat(<<>>)

\* The loop over the claims from index i on (QuestionInspector.tsx:308-317).
RECURSIVE PushClaims(_, _, _, _, _, _)
PushClaims(target, matrix, chunkIndex, claims, chunkCount, i) ==
    IF i >= Len(claims) THEN target
    ELSE PushClaims(
           pushByRel(target,
                     relAt(matrix, chunkIndex, i, chunkCount, Len(claims)),
                     claims[i + 1]),
           matrix, chunkIndex, claims, chunkCount, i + 1)

getClaimSetsForChunk(q, chunkIndex) ==
    LET r2a == ArrayOrEmpty(q.retrieved2answer)
        r2r == ArrayOrEmpty(q.retrieved2response)
    IN  [hasGt |-> TRUE,
         gt |-> PushClaims(EmptySets, r2a, chunkIndex, q.gtClaims, q.chunkCount, 0),
         response |-> PushClaims(EmptySets, r2r, chunkIndex, q.respClaims,
                                 q.chunkCount, 0)]

\* x?.length || 0
OptLength(x) == IF x.isArr THEN Len(x.cells) ELSE 0

\* Entailment tested before contradiction.
chunkStatusForSets_RelevantFirst(sets) ==
    LET ent == OptLength(sets.gt.entailments)
        con == OptLength(sets.gt.contradictions)
    IN  IF ent > 0 THEN "relevant"
        ELSE IF con > 0 THEN "harming"
        ELSE "irrelevant"

chunkStatusForSets(sets) ==
    LET ent == OptLength(sets.gt.entailments)
        con == OptLength(sets.gt.contradictions)
    IN  IF con > 0 THEN "harming"
        ELSE IF ent > 0 THEN "relevant"
        ELSE "irrelevant"

\* Entailment tested before contradiction.
usageStatusForSets_GroundedFirst(sets) ==
    LET ent == OptLength(sets.response.entailments)
        con == OptLength(sets.response.contradictions)
    IN  IF ent > 0 THEN "grounded"
        ELSE IF con > 0 THEN "contradicting"
        ELSE "unused"

usageStatusForSets(sets) ==
    LET ent == OptLength(sets.response.entailments)
        con == OptLength(sets.response.contradictions)
    IN  IF con > 0 THEN "contradicting"
        ELSE IF ent > 0 THEN "grounded"
        ELSE "unused"

ChunkIndices(q) == 0..(q.chunkCount - 1)

NoPills ==
    [rel |-> 0, irr |-> 0, harm |-> 0, grounded |-> 0, unused |-> 0, respContr |-> 0]

Inc(b) == IF b THEN 1 ELSE 0

\* The body of the forEach of the chunk summary row
\* (QuestionInspector.tsx:492-499) for a chunk with the given claim sets.
Tally(acc, sets) ==
    [rel |-> acc.rel + Inc(Len(sets.gt.entailments.cells) > 0),
     irr |-> acc.irr + Inc(isIrrelevantFromSets(sets)),
     harm |-> acc.harm + Inc(Len(sets.gt.contradictions.cells) > 0),
     grounded |-> acc.grounded + Inc(Len(sets.response.entailments.cells) > 0),
     unused |-> acc.unused + Inc(Len(sets.response.entailments.cells) = 0),
     respContr |-> acc.respContr + Inc(Len(sets.response.contradictions.cells) > 0)]

RECURSIVE TallyFrom(_, _, _)
TallyFrom(acc, q, idx) ==
    IF idx >= q.chunkCount THEN acc
    ELSE TallyFrom(Tally(acc, getClaimSetsForChunk(q, idx)), q, idx + 1)

\* The counters of the chunk summary row (QuestionInspector.tsx:490-500).
ChunkSummary(q) == TallyFrom(NoPills, q, 0)

\* hidden of the chunk list (QuestionInspector.tsx:618-625).
ChunkHidden(chunkFilters, flags) ==
    \/ (~chunkFilters.relevant /\ flags.relevant)
    \/ (~chunkFilters.irrelevant /\ flags.irrelevant)
    \/ (~chunkFilters.harming /\ flags.harming)
    \/ (~chunkFilters.grounded /\ flags.grounded)
    \/ (~chunkFilters.unused /\ flags.unused)
    \/ (~chunkFilters.contradicting /\ flags.contradicting)

ChunkFlags(sets, status) ==
    [relevant |-> status = "relevant",
     irrelevant |-> status = "irrelevant",
     harming |-> status = "harming",
     grounded |-> Len(sets.response.entailments.cells) > 0,
     unused |-> Len(sets.response.entailments.cells) = 0,
     contradicting |-> Len(sets.response.contradictions.cells) > 0]

\* One chunk of the chunk list (QuestionInspector.tsx:604-626, 646-647), from
\* its claim sets; a hidden chunk renders no element.
RowOf(sets, status, flags, chunkFilters) ==
    [sets |-> sets,
     isIrrelevant |-> isIrrelevantFromSets(sets),
     status |-> status,
     flags |-> flags,
     hidden |-> ChunkHidden(chunkFilters, flags),
     usage |-> usageStatusForSets(sets)]

ChunkRowForStatus(sets, status, chunkFilters) ==
    RowOf(sets, status, ChunkFlags(sets, status), chunkFilters)

ChunkRowForSets(sets, chunkFilters) ==
    ChunkRowForStatus(sets, chunkStatusForSets(sets), chunkFilters)

ChunkRow(q, index, chunkFilters) ==
    ChunkRowForSets(getClaimSetsForChunk(q, index), chunkFilters)

\* The test that drops a claim from its list (QuestionInspector.tsx:437-441
\* and 774-778).
ClaimHidden(claimFilters, status) ==
    \/ (status = "entailed" /\ ~claimFilters.entailed)
    \/ (status = "neutral" /\ ~claimFilters.neutral)
    \/ (status = "contradiction" /\ ~claimFilters.contradiction)

\* One item of the ground-truth claim list (QuestionInspector.tsx:435-454).
GtClaimRow(status, gtClaimFilters) ==
    [status |-> status, hidden |-> ClaimHidden(gtClaimFilters, status)]

\* The scan for a chunk that entails response claim i
\* (QuestionInspector.tsx:780-788).
supportedByChunk(q, i) ==
    LET r2r == ArrayOrEmpty(q.retrieved2response)
        \* String(rel || '')
        StringOrEmpty(rel) == IF Falsy(rel) THEN "" ELSE rel
    IN  \E j \in 0..(q.chunkCount - 1) :
           ToLowerCase(StringOrEmpty(
               relAt(r2r, j, i, q.chunkCount, Len(q.respClaims)))) = "entailment"

\* One item of the response claim list (QuestionInspector.tsx:772-813); a
\* hidden claim renders nothing, its flags are not computed.
RespClaimRow(q, i, status, respClaimFilters) ==
    LET hidden == ClaimHidden(respClaimFilters, status)
        supported == supportedByChunk(q, i)
    IN  [status |-> status,
         hidden |-> hidden,
         supportedByChunk |-> ~hidden /\ supported,
         showSelfKnowledge |-> ~hidden /\ status = "entailed" /\ ~supported,
         showHallucination |-> ~hidden /\ status # "entailed" /\ ~supported]

\* The statuses of the two claim lists (QuestionInspector.tsx:232-248).
gtClaimStatuses(q) == mapDirectStatuses(q.response2answer, Len(q.gtClaims))
respClaimStatuses(q) == mapDirectStatuses(q.answer2response, Len(q.respClaims))

\* The render of the three panels.  The chunk summary row and the chunk list
\* are shown only when the panel is expanded and there are chunks
\* (QuestionInspector.tsx:486), a claim list only when it is expanded and has
\* claims (QuestionInspector.tsx:401-403 and 740-743).
RenderView(q, u) ==
    LET chunksShown == u.isChunksExpanded /\ q.chunkCount > 0
        gtShown == u.isGTClaimsExpanded /\ Len(q.gtClaims) > 0
        respShown == u.isResponseClaimsExpanded /\ Len(q.respClaims) > 0
    IN  [chunksShown |-> chunksShown,
         pills |-> IF chunksShown THEN ChunkSummary(q) ELSE NoPills,
         chunks |-> IF chunksShown
                    THEN [k \in 1..q.chunkCount |-> ChunkRow(q, k - 1, u.chunkFilters)]
                    ELSE <<>>,
         gtShown |-> gtShown,
         gtClaims |-> IF gtShown
                      THEN [k \in 1..Len(q.gtClaims) |->
                              GtClaimRow(gtClaimStatuses(q)[k], u.gtClaimFilters)]
                      ELSE <<>>,
         respShown |-> respShown,
         respClaims |-> IF respShown
                        THEN [k \in 1..Len(q.respClaims) |->
                                RespClaimRow(q, k - 1, respClaimStatuses(q)[k],
                                             u.respClaimFilters)]
                        ELSE <<>>]

(***************************************************************************)
(* ClaimChunkOverlay (ClaimChunkOverlay.tsx).  The elements compute finds  *)
(* in the three columns are the rendered items of the view; a node is the  *)
(* value of the item's data-*-index attribute, its original index.  A path *)
(* is [kind, rel, src, dst]; the geometry of a path is left out.  Path     *)
(* indices are those of JS, from 0.                                        *)
(***************************************************************************)
\* Every item of the list, hidden or not.
Rendered_All(rows) == [k \in 1..Len(rows) |-> k - 1]

\* querySelectorAll('[data-gt-claim-index]') and its like: the original
\* indices of the rendered items, in document order.
Rendered(rows) ==
    LET RECURSIVE VisibleFrom(_, _)
        VisibleFrom(out, i) ==
            IF i >= Len(rows) THEN out
            ELSE VisibleFrom(IF rows[i + 1].hidden THEN out ELSE Append(out, i),
                             i + 1)
    IN  VisibleFrom(<<>>, 0)

\* The props the inspector passes to the overlay (QuestionInspector.tsx:827-834)
\* and the node lists of compute (ClaimChunkOverlay.tsx:68-76).
gtNodes(v) == IF v.gtShown THEN Rendered(v.gtClaims) ELSE <<>>
respNodes(v) == IF v.respShown THEN Rendered(v.respClaims) ELSE <<>>
chunkNodes(v) == IF v.chunksShown THEN Rendered(v.chunks) ELSE <<>>

Node(col, index) == [col |-> col, index |-> index]
NoNode == Node("none", -1)

Path(kind, rel, src, dst) == [kind |-> kind, rel |-> rel, src |-> src, dst |-> dst]

\* The test without its 'Neutral' half.
Skipped_FalsyOnly(rel) == Falsy(rel)

\* if (!rel || rel === 'Neutral') return;
Skipped(rel) == Falsy(rel) \/ rel = Neutral

\* The inner forEach over the chunks for one ground-truth claim
\* (ClaimChunkOverlay.tsx:136-154).
RECURSIVE GtChunkPaths(_, _, _, _, _, _)
GtChunkPaths(pathsOut, q, gi, gtCount, chunkInfos, idx) ==
    IF idx >= Len(chunkInfos) THEN pathsOut
    ELSE LET cjMatrix == chunkInfos[idx + 1]
             rel == relAt(ArrayOrEmpty(q.retrieved2answer), cjMatrix, gi,
                          q.chunkCount, gtCount)
         IN  GtChunkPaths(
               IF Skipped(rel) THEN pathsOut
               ELSE Append(pathsOut, Path("gtChunk", rel, Node("gt", gi),
                                          Node("chunk", cjMatrix))),
               q, gi, gtCount, chunkInfos, idx + 1)

\* gtNodes.forEach (ClaimChunkOverlay.tsx:130-155).
RECURSIVE GtPaths(_, _, _, _, _)
GtPaths(pathsOut, q, gt, chunkInfos, visIdx) ==
    IF visIdx >= Len(gt) THEN pathsOut
    ELSE GtPaths(GtChunkPaths(pathsOut, q, gt[visIdx + 1], Len(gt), chunkInfos, 0),
                 q, gt, chunkInfos, visIdx + 1)

\* The inner forEach over the chunks for one response claim
\* (ClaimChunkOverlay.tsx:164-181); relAt is called without a claim count.
RECURSIVE ChunkRespPaths(_, _, _, _, _)
ChunkRespPaths(pathsOut, q, ri, chunkInfos, idx) ==
    IF idx >= Len(chunkInfos) THEN pathsOut
    ELSE LET cjMatrix == chunkInfos[idx + 1]
             rel == relAt(ArrayOrEmpty(q.retrieved2response), cjMatrix, ri,
                          q.chunkCount, NoCount)
         IN  ChunkRespPaths(
               IF Skipped(rel) THEN pathsOut
               ELSE Append(pathsOut, Path("chunkResp", rel, Node("chunk", cjMatrix),
                                          Node("resp", ri))),
               q, ri, chunkInfos, idx + 1)

\* respNodes.forEach (ClaimChunkOverlay.tsx:158-182).
RECURSIVE RespPaths(_, _, _, _, _)
RespPaths(pathsOut, q, resp, chunkInfos, visIdx) ==
    IF visIdx >= Len(resp) THEN pathsOut
    ELSE RespPaths(ChunkRespPaths(pathsOut, q, resp[visIdx + 1], chunkInfos, 0),
                   q, resp, chunkInfos, visIdx + 1)

LastFirst(nodes) == [k \in 1..Len(nodes) |-> nodes[Len(nodes) + 1 - k]]

\* The chunks visited from the last to the first.
ComputePaths_ChunksLastFirst(q, v) ==
    RespPaths(GtPaths(<<>>, q, gtNodes(v), LastFirst(chunkNodes(v)), 0),
              q, respNodes(v), LastFirst(chunkNodes(v)), 0)

\* pathsOut of compute (ClaimChunkOverlay.tsx:80, 130-182).
ComputePaths(q, v) ==
    RespPaths(GtPaths(<<>>, q, gtNodes(v), chunkNodes(v), 0),
              q, respNodes(v), chunkNodes(v), 0)

\* paths[i] of JS.
PathAt(paths, i) == paths[i + 1]
PathIndices(paths) == 0..(Len(paths) - 1)

\* The selector of a ground-truth claim's listener (ClaimChunkOverlay.tsx:201-206);
\* gi is the second argument of gtNodes.forEach.
SelectGt(pathsOut, gi) ==
    LET direct == {i \in PathIndices(pathsOut) :
                      PathAt(pathsOut, i).src = Node("gt", gi)}
        chunkIdxs == {PathAt(pathsOut, i).dst.index :
                        i \in {d \in direct : PathAt(pathsOut, d).dst.col = "chunk"}}
        chain == {i \in PathIndices(pathsOut) :
                     /\ PathAt(pathsOut, i).src.col = "chunk"
                     /\ PathAt(pathsOut, i).src.index \in chunkIdxs}
    IN  direct \cup chain

\* The selector of a chunk's listener (ClaimChunkOverlay.tsx:208-211).
SelectChunk(pathsOut, matrixIdx) ==
    {i \in PathIndices(pathsOut) :
        \/ PathAt(pathsOut, i).src = Node("chunk", matrixIdx)
        \/ PathAt(pathsOut, i).dst = Node("chunk", matrixIdx)}

\* The selector of a response claim's listener (ClaimChunkOverlay.tsx:213-218).
SelectResp(pathsOut, ri) ==
    LET direct == {i \in PathIndices(pathsOut) :
                      PathAt(pathsOut, i).dst = Node("resp", ri)}
        chunkIdxs == {PathAt(pathsOut, i).src.index :
                        i \in {d \in direct : PathAt(pathsOut, d).src.col = "chunk"}}
        chain == {i \in PathIndices(pathsOut) :
                     /\ PathAt(pathsOut, i).dst.col = "chunk"
                     /\ PathAt(pathsOut, i).dst.index \in chunkIdxs}
    IN  direct \cup chain

\* A listener is [el, arg]: the element it is attached to and the index its
\* selector closes over.  The paths it closes over are those compute stored.
\* hovered is the element or the path the pointer is on, and fresh tells that
\* the hover state is the selection its listener made on the paths now
\* stored.  hoverIdx is the set of the index stored, empty for null.
\* timers are the timers of the layout effect that are set, each with the
\* show props the compute it will call closes over.  old are the elements
\* that carry a listener pair an earlier compute, of this overlay or of one
\* unmounted since, attached: no code removes a pair from an element.
Listener(el, arg) == [el |-> el, arg |-> arg]

SelectPaths(pathsOut, l) ==
    IF l.el.col = "gt" THEN SelectGt(pathsOut, l.arg)
    ELSE IF l.el.col = "chunk" THEN SelectChunk(pathsOut, l.arg)
    ELSE SelectResp(pathsOut, l.arg)

\* The listeners compute attaches (ClaimChunkOverlay.tsx:190-218).
AttachHover(v) ==
    {Listener(Node("gt", gtNodes(v)[k]), k - 1) : k \in 1..Len(gtNodes(v))}
    \cup {Listener(Node("chunk", chunkNodes(v)[k]), chunkNodes(v)[k]) :
            k \in 1..Len(chunkNodes(v))}
    \cup {Listener(Node("resp", respNodes(v)[k]), k - 1) : k \in 1..Len(respNodes(v))}

\* The elements of the three columns that are in the document.
Elements(v) ==
    {Node("gt", gtNodes(v)[k]) : k \in 1..Len(gtNodes(v))}
    \cup {Node("chunk", chunkNodes(v)[k]) : k \in 1..Len(chunkNodes(v))}
    \cup {Node("resp", respNodes(v)[k]) : k \in 1..Len(respNodes(v))}

\* The show props of the overlay (QuestionInspector.tsx:827-829), which
\* compute closes over.
ShowProps(v) ==
    [gtShown |-> v.gtShown, respShown |-> v.respShown, chunksShown |-> v.chunksShown]

\* What a compute that closed over the props p finds in the document v: the
\* items of a column when its prop is on and the column has them.
Found(v, p) ==
    [v EXCEPT !.gtShown = @ /\ p.gtShown,
              !.respShown = @ /\ p.respShown,
              !.chunksShown = @ /\ p.chunksShown]

\* The overlay after its first render: no paths (ClaimChunkOverlay.tsx:47-52);
\* the layout effect sets its timer after the render.
OverlayMounted ==
    [mounted |-> TRUE, timers |-> <<>>, paths |-> <<>>, hoverPathSet |-> {},
     hoverIdx |-> {}, listeners |-> {}, old |-> {}, hovered |-> NoNode,
     fresh |-> FALSE]

OverlayUnmounted ==
    [mounted |-> FALSE, timers |-> <<>>, paths |-> <<>>, hoverPathSet |-> {},
     hoverIdx |-> {}, listeners |-> {}, old |-> {}, hovered |-> NoNode,
     fresh |-> FALSE]

\* compute (ClaimChunkOverlay.tsx:54-221) with the show props p.  On an
\* element that already has a listener the one attached last sets the hover
\* state last; the pairs attached before stay on their elements.
compute(o, q, v, p) ==
    [o EXCEPT !.paths = ComputePaths(q, Found(v, p)),
              !.listeners = AttachHover(Found(v, p)),
              !.old = @ \cup {l.el : l \in o.listeners},
              !.fresh = @ /\ ComputePaths(q, Found(v, p)) = o.paths]

\* The dependencies of compute (ClaimChunkOverlay.tsx:221): the three show
\* props and recalcKey, the serialized filters (QuestionInspector.tsx:830-833).
ComputeDeps(u, v) ==
    <<v.gtShown, v.respShown, v.chunksShown,
      u.chunkFilters, u.gtClaimFilters, u.respClaimFilters>>

\* The effect without its cleanup: every timer set stays set.
EffectTimers_NoCleanup(timers, p) == Append(timers, p)

\* The timers after the layout effect ran again (ClaimChunkOverlay.tsx:223-227):
\* its cleanup clears the timer the effect set before, the last one set if
\* it has not fired, and the effect sets one for the new compute.
EffectTimers(timers, p) ==
    Append(IF Len(timers) > 0 THEN SubSeq(timers, 1, Len(timers) - 1) ELSE timers, p)

\* The overlay after a render of the inspector: unmounted with the connectors
\* off (QuestionInspector.tsx:826), its timer cleared; mounted anew when they
\* come on, its timer set; otherwise its state is kept and the layout effect
\* runs again when a dependency of compute changed.  The listeners of the
\* elements that left the document are gone with them; those of an overlay
\* unmounted stay on their elements and set the state of no overlay.
OverlayAfterRender(o, u, v, u2, v2) ==
    LET kept == {el \in o.old \cup {l.el : l \in o.listeners} : el \in Elements(v2)}
    IN  IF ~u2.showConnectors THEN [OverlayUnmounted EXCEPT !.old = kept]
        ELSE IF ~o.mounted
        THEN [OverlayMounted EXCEPT
                !.timers = EffectTimers(<<>>, ShowProps(v2)), !.old = kept]
        ELSE [o EXCEPT
                !.timers = IF ComputeDeps(u, v) # ComputeDeps(u2, v2)
                           THEN EffectTimers(@, ShowProps(v2))
                           ELSE @,
                !.listeners = {l \in @ : l.el \in Elements(v2)},
                !.old = @ \cap Elements(v2),
                !.hovered = IF @ \in Elements(v2) THEN @ ELSE NoNode,
                !.fresh = FALSE]

(***************************************************************************)
(* The questions inspected.                                                *)
(***************************************************************************)
MaxCells == 4      \* cells of a relation matrix: chunkCount * claim count

InspectorCells == {Entailment, Contradiction, Neutral, Undefined}

ClaimList(prefix, n) == [i \in 1..n |-> prefix \o ToString(i)]

\* Claim counts that fit a matrix of at most MaxCells cells with cc chunks.
ClaimCounts(cc) == {n \in 0..MaxCells : cc * n <= MaxCells}

\* Every cc x n matrix, rows = chunks.
RichMatrices(cc, n) ==
    {Mat(r) : r \in [1..cc -> {Arr(c) : c \in [1..n -> InspectorCells]}]}

\* The matrices of one value throughout, and the field missing altogether.
PlainMatrices(cc, n) ==
    {NonArrayMatrix} \cup
    {Mat([r \in 1..cc |-> Arr([c \in 1..n |-> v])]) : v \in InspectorCells}

\* A question without the claim-level relation arrays response2answer and
\* answer2response.
Question(cc, ng, nr, a, r) ==
    [chunkCount |-> cc,
     gtClaims |-> ClaimList("g", ng), respClaims |-> ClaimList("r", nr),
     retrieved2answer |-> a, retrieved2response |-> r,
     response2answer |-> NonArrayMatrix, answer2response |-> NonArrayMatrix]

\* The inspector's state after construction (QuestionInspector.tsx:27-40).
DefaultUi ==
    [isGTClaimsExpanded |-> FALSE,
     isResponseClaimsExpanded |-> FALSE,
     isChunksExpanded |-> TRUE,
     showConnectors |-> TRUE,
     chunkFilters |-> [relevant |-> TRUE, irrelevant |-> TRUE, harming |-> TRUE,
                       grounded |-> TRUE, unused |-> TRUE, contradicting |-> TRUE],
     gtClaimFilters |-> [entailed |-> TRUE, neutral |-> TRUE, contradiction |-> TRUE],
     respClaimFilters |-> [entailed |-> TRUE, neutral |-> TRUE, contradiction |-> TRUE]]

\* The state after the first render of a question.
Mounted(q) ==
    /\ question = q
    /\ ui = DefaultUi
    /\ view = RenderView(q, DefaultUi)
    /\ overlay = [OverlayMounted EXCEPT
                    !.timers = EffectTimers(<<>>, ShowProps(RenderView(q, DefaultUi)))]
    /\ clicks = 0

\* One direction carries arbitrary relations, the other a plain matrix.
InspectorInit ==
    \E cc \in 0..MaxCells :
       \E ng \in ClaimCounts(cc), nr \in ClaimCounts(cc) :
          \/ \E a \in RichMatrices(cc, ng), r \in PlainMatrices(cc, nr) :
                Mounted(Question(cc, ng, nr, a, r))
          \/ \E a \in PlainMatrices(cc, ng), r \in RichMatrices(cc, nr) :
                Mounted(Question(cc, ng, nr, a, r))

\* A state update of the inspector and the render that follows it.
Rerender(u2) ==
    /\ ui' = u2
    /\ view' = RenderView(question, u2)
    /\ overlay' = OverlayAfterRender(overlay, ui, view, u2, view')
    /\ UNCHANGED <<resolver, relevance, disposition, question, extraction>>

\* The Collapse / Expand button of the chunk panel (QuestionInspector.tsx:478).
ToggleChunksExpanded == Rerender([ui EXCEPT !.isChunksExpanded = ~@])

Init ==
    /\ InspectorInit
    /\ resolver = ResolverIdle
    /\ relevance = RelevanceIdle
    /\ disposition = DispositionIdle
    /\ extraction = ExtractionIdle

Next == ToggleChunksExpanded /\ UNCHANGED clicks

Spec == Init /\ [][Next]_vars

(***************************************************************************)
(* Claims about the chunk classification, checked under Spec.              *)
(***************************************************************************)
\* The number of claims the chunk has the given relation to, read off the
\* matrix with the resolver.
RelCount(matrix, chunkIndex, chunkCount, claimCount, rel) ==
    Cardinality({i \in 0..(claimCount - 1) :
        relAt(ArrayOrEmpty(matrix), chunkIndex, i, chunkCount, claimCount) = rel})

GtCount(q, chunkIndex, rel) ==
    RelCount(q.retrieved2answer, chunkIndex, q.chunkCount, Len(q.gtClaims), rel)

RespCount(q, chunkIndex, rel) ==
    RelCount(q.retrieved2response, chunkIndex, q.chunkCount, Len(q.respClaims), rel)

ShownChunks == IF view.chunksShown THEN 1..Len(view.chunks) ELSE {}

\* C4: every chunk gets exactly one status label: 'harming' iff its GT
\* contradiction count > 0, 'relevant' iff that count = 0 and its GT
\* entailment count > 0, 'irrelevant' otherwise.
C4_ChunkStatusPrecedence ==
    \A k \in ShownChunks :
        LET status == view.chunks[k].status
            con == GtCount(question, k - 1, Contradiction)
            ent == GtCount(question, k - 1, Entailment)
        IN  /\ status \in {"harming", "relevant", "irrelevant"}
            /\ (status = "harming") <=> (con > 0)
            /\ (status = "relevant") <=> (con = 0 /\ ent > 0)
            /\ (status = "irrelevant") <=> (con = 0 /\ ent = 0)

\* A chunk with both an entailment and a contradiction is shown as harming.
C4_Witness ==
    \E k \in ShownChunks :
        /\ GtCount(question, k - 1, Contradiction) > 0
        /\ GtCount(question, k - 1, Entailment) > 0
        /\ view.chunks[k].status = "harming"

\* C5: every chunk gets exactly one usage label: 'contradicting' iff its
\* response contradiction count > 0, 'grounded' iff that count = 0 and its
\* response entailment count > 0, 'unused' otherwise.
C5_ChunkUsagePrecedence ==
    \A k \in ShownChunks :
        LET usage == view.chunks[k].usage
            con == RespCount(question, k - 1, Contradiction)
            ent == RespCount(question, k - 1, Entailment)
        IN  /\ usage \in {"contradicting", "grounded", "unused"}
            /\ (usage = "contradicting") <=> (con > 0)
            /\ (usage = "grounded") <=> (con = 0 /\ ent > 0)
            /\ (usage = "unused") <=> (con = 0 /\ ent = 0)

\* A chunk that both supports and conflicts with response claims is shown as
\* contradicting.
C5_Witness ==
    \E k \in ShownChunks :
        /\ RespCount(question, k - 1, Contradiction) > 0
        /\ RespCount(question, k - 1, Entailment) > 0
        /\ view.chunks[k].usage = "contradicting"

\* C7: a chunk's quality badge / filter flag is 'irrelevant' iff the
\* irrelevance predicate holds of its claim sets, and the 'Irrelevant' pill
\* counts exactly the chunks whose badge is 'irrelevant'.
C7_SingleSourceOfIrrelevant ==
    /\ \A k \in ShownChunks :
          /\ view.chunks[k].flags.irrelevant
                <=> isIrrelevantFromSets(view.chunks[k].sets)
          /\ (view.chunks[k].status = "irrelevant")
                <=> isIrrelevantFromSets(view.chunks[k].sets)
    /\ view.pills.irr =
          Cardinality({k \in ShownChunks : view.chunks[k].status = "irrelevant"})

\* The question with every unresolvable relation cell replaced by 'Neutral'.
NeutralFilled(matrix, chunkCount, claimCount) ==
    Mat([c \in 1..chunkCount |-> Arr([i \in 1..claimCount |->
        LET rel == relAt(ArrayOrEmpty(matrix), c - 1, i - 1, chunkCount, claimCount)
        IN  IF rel = Undefined THEN Neutral ELSE rel])])

UnknownAsNeutral(q) ==
    [q EXCEPT
       !.retrieved2answer = NeutralFilled(@, q.chunkCount, Len(q.gtClaims)),
       !.retrieved2response = NeutralFilled(@, q.chunkCount, Len(q.respClaims))]

\* C9: replacing every unresolvable relation cell by 'Neutral' changes none
\* of the classification outputs: neutral counts, chunk status, chunk
\* usage, the irrelevance predicate and the summary pill counts.
C9_UnknownCountsAsNeutral ==
    LET filled == RenderView(UnknownAsNeutral(question), ui)
    IN  /\ filled.pills = view.pills
        /\ \A k \in ShownChunks :
              /\ filled.chunks[k].status = view.chunks[k].status
              /\ filled.chunks[k].usage = view.chunks[k].usage
              /\ filled.chunks[k].isIrrelevant = view.chunks[k].isIrrelevant
              /\ Len(filled.chunks[k].sets.gt.neutrals.cells)
                    = Len(view.chunks[k].sets.gt.neutrals.cells)
              /\ Len(filled.chunks[k].sets.response.neutrals.cells)
                    = Len(view.chunks[k].sets.response.neutrals.cells)

(***************************************************************************)
(* Disposition harness: mapDirectStatuses on a relations array.            *)
(***************************************************************************)
MaxEntries == 2    \* entries of a claim-level relations array
MaxEntryLen == 2   \* cells of a list entry

DispositionCells == {Entailment, Contradiction, Neutral, Undefined}

DispositionEntries ==
    {Single(v) : v \in DispositionCells}
    \cup {List(c) : c \in SeqsUpTo(DispositionCells, MaxEntryLen)}

DispositionInit ==
    \E rel \in {NonArrayMatrix}
                 \cup {Mat(r) : r \in SeqsUpTo(DispositionEntries, MaxEntries)},
       n \in 0..(MaxEntries + 1) :
        disposition = [phase |-> "input", relations |-> rel, targetLen |-> n,
                       statuses |-> <<>>]

MapStatuses ==
    /\ disposition.phase = "input"
    /\ disposition' = [disposition EXCEPT
         !.phase = "mapped",
         !.statuses = mapDirectStatuses(disposition.relations, disposition.targetLen)]
    /\ UNCHANGED <<resolver, relevance, question, ui, view, overlay, clicks, extraction>>

InitDisposition ==
    /\ DispositionInit
    /\ resolver = ResolverIdle
    /\ relevance = RelevanceIdle
    /\ question = QuestionIdle
    /\ ui = UiIdle
    /\ view = ViewIdle
    /\ overlay = OverlayIdle
    /\ clicks = 0
    /\ extraction = ExtractionIdle

NextDisposition == MapStatuses

SpecDisposition == InitDisposition /\ [][NextDisposition]_vars

(***************************************************************************)
(* Claims about claim dispositions, checked under SpecDisposition.         *)
(***************************************************************************)
\* C10: the disposition of a claim whose relation entry is a list of cells
\* is 'entailed' if any cell is Entailment, else 'contradiction' if any cell
\* is Contradiction, else 'neutral'; a missing entry is 'neutral'.
C10_DispositionCollapse ==
    disposition.phase = "mapped" =>
        \A k \in 1..disposition.targetLen :
            LET rows == disposition.relations.rows
                status == disposition.statuses[k]
            IN  IF disposition.relations.isArr /\ k <= Len(rows)
                THEN rows[k].isArr =>
                       LET cells == {rows[k].cells[i] : i \in 1..Len(rows[k].cells)}
                       IN  status = IF Entailment \in cells THEN "entailed"
                                    ELSE IF Contradiction \in cells THEN "contradiction"
                                    ELSE "neutral"
                ELSE status = "neutral"

(***************************************************************************)
(* The inspector with its connectors: the buttons of the three panels, the *)
(* deferred and the resize-driven compute of the overlay, and the hover    *)
(* listeners compute attaches to the rendered claims and chunks.           *)
(***************************************************************************)
MaxChunks == 2     \* chunks of a question with connectors
MaxClaims == 2     \* claims of either list of such a question
MaxRich == 2       \* cells of the one relation matrix that varies freely
MaxClicks == 2     \* buttons pressed in one session

\* The Expand / Collapse Claims buttons (QuestionInspector.tsx:398, 735).
ToggleGTClaimsExpanded == Rerender([ui EXCEPT !.isGTClaimsExpanded = ~@])
ToggleResponseClaimsExpanded == Rerender([ui EXCEPT !.isResponseClaimsExpanded = ~@])

\* The Hide / Show connectors button (QuestionInspector.tsx:471).
ToggleConnectors == Rerender([ui EXCEPT !.showConnectors = ~@])

\* The filter pills; a pill is rendered with its list
\* (QuestionInspector.tsx:409-432, 530-590, 746-769).
ToggleChunkFilter(k) ==
    /\ view.chunksShown
    /\ Rerender([ui EXCEPT !.chunkFilters[k] = ~@])

ToggleGtClaimFilter(k) ==
    /\ view.gtShown
    /\ Rerender([ui EXCEPT !.gtClaimFilters[k] = ~@])

ToggleRespClaimFilter(k) ==
    /\ view.respShown
    /\ Rerender([ui EXCEPT !.respClaimFilters[k] = ~@])

OverlayStep(o2) ==
    /\ overlay' = o2
    /\ UNCHANGED <<resolver, relevance, disposition, question, ui, view, clicks,
                   extraction>>

\* A timer of the layout effect fires, the one set first
\* (ClaimChunkOverlay.tsx:223-227).
TimerCompute ==
    /\ overlay.mounted /\ Len(overlay.timers) > 0
    /\ OverlayStep([compute(overlay, question, view, Head(overlay.timers))
                      EXCEPT !.timers = Tail(overlay.timers)])

\* A resize of the window or of the grid (ClaimChunkOverlay.tsx:229-245); the
\* handler calls the compute of the last render.
Resize ==
    /\ overlay.mounted
    /\ OverlayStep(compute(overlay, question, view, ShowProps(view)))

\* The pointer enters an element that has a listener
\* (ClaimChunkOverlay.tsx:191).
MouseEnter(el) ==
    /\ overlay.mounted /\ overlay.hovered = NoNode
    /\ el \in Elements(view)
    /\ \E l \in overlay.listeners :
          /\ l.el = el
          /\ OverlayStep([overlay EXCEPT
                            !.hoverPathSet = SelectPaths(overlay.paths, l),
                            !.hovered = el,
                            !.fresh = TRUE])

\* A leave that keeps the selection.
MouseLeave_KeepSelection ==
    /\ overlay.mounted /\ overlay.hovered \in Elements(view)
    /\ OverlayStep([overlay EXCEPT !.hovered = NoNode, !.fresh = FALSE])

\* The pointer leaves the element it was on (ClaimChunkOverlay.tsx:192).
MouseLeave ==
    /\ overlay.mounted /\ overlay.hovered \in Elements(view)
    /\ OverlayStep([overlay EXCEPT
                      !.hoverPathSet = {}, !.hovered = NoNode, !.fresh = FALSE])

\* The pointer enters the stroke of path i (ClaimChunkOverlay.tsx:303).
PathEnter(i) ==
    /\ overlay.mounted /\ overlay.hovered = NoNode
    /\ i \in PathIndices(overlay.paths)
    /\ OverlayStep([overlay EXCEPT
                      !.hoverIdx = {i}, !.hovered = Node("path", i), !.fresh = TRUE])

\* The pointer leaves the path it was on, and with it the svg, which takes
\* pointer events on its strokes only (ClaimChunkOverlay.tsx:283-285).
SvgMouseLeave ==
    /\ overlay.mounted /\ overlay.hovered.col = "path"
    /\ OverlayStep([overlay EXCEPT
                      !.hoverIdx = {}, !.hoverPathSet = {}, !.hovered = NoNode,
                      !.fresh = FALSE])

\* A button is pressed with the pointer, which is then on no claim or chunk.
Press(button) ==
    /\ clicks < MaxClicks
    /\ overlay.hovered = NoNode
    /\ clicks' = clicks + 1
    /\ button

\* The questions inspected: plain questions (every chunk entails every claim,
\* the first claim of each list entailed); questions without an entailment
\* or contradiction in either matrix; questions with one claim in one list
\* that differ from a plain one in a relation field of the other list.  The
\* cells are the three labels and a label in another case.
ConnectorQuestions ==
    LET Cells == {Entailment, Contradiction, Neutral, "entailment"}
        \* A matrix of one label throughout, rows = chunks.
        Filled(cc, n, rel) == Mat([r \in 1..cc |-> Arr([c \in 1..n |-> rel])])
        \* The cc x n matrices in either orientation, and the field missing.
        OrientedMatrices(cc, n) ==
            IF cc * n > MaxRich THEN {}
            ELSE LET byChunk ==
                         {Mat(r) : r \in [1..cc -> {Arr(c) : c \in [1..n -> Cells]}]}
                 IN  {NonArrayMatrix} \cup byChunk
                     \cup {Transpose(m, cc, n) : m \in byChunk}
        \* The matrices that resolve to Neutral or to nothing everywhere.
        NeutralMatrices(cc, n) ==
            {NonArrayMatrix, Filled(cc, n, Neutral),
             Transpose(Filled(cc, n, Neutral), cc, n)}
        \* A claim-level relation array of single cells.
        StatusArrays(n) == {Mat(e) : e \in [1..n -> {Single(v) : v \in Cells}]}
        \* The first claim entailed, the others neutral.
        PlainStatuses(n) ==
            Mat([k \in 1..n |-> Single(IF k = 1 THEN Entailment ELSE Neutral)])
        Plain(cc, ng, nr) ==
            [Question(cc, ng, nr, Filled(cc, ng, Entailment),
                      Filled(cc, nr, Entailment)) EXCEPT
               !.response2answer = PlainStatuses(ng),
               !.answer2response = PlainStatuses(nr)]
        Chunks == 1..MaxChunks
        Claims == 1..MaxClaims
    IN  {Plain(cc, ng, nr) : cc \in Chunks, ng \in Claims, nr \in Claims}
        \cup UNION {{[Plain(cc, ng, nr) EXCEPT
                        !.retrieved2answer = a, !.retrieved2response = r] :
                        a \in NeutralMatrices(cc, ng), r \in NeutralMatrices(cc, nr)} :
                    cc \in Chunks, ng \in Claims, nr \in Claims}
        \cup UNION {{[Plain(cc, n, 1) EXCEPT !.retrieved2answer = a] :
                        a \in OrientedMatrices(cc, n)}
                    \cup {[Plain(cc, n, 1) EXCEPT !.response2answer = x] :
                             x \in StatusArrays(n)}
                    \cup {[Plain(cc, 1, n) EXCEPT !.retrieved2response = r] :
                             r \in OrientedMatrices(cc, n)}
                    \cup {[Plain(cc, 1, n) EXCEPT !.answer2response = x] :
                             x \in StatusArrays(n)} :
                    cc \in Chunks, n \in Claims}

InitConnectors ==
    /\ \E q \in ConnectorQuestions : Mounted(q)
    /\ resolver = ResolverIdle
    /\ relevance = RelevanceIdle
    /\ disposition = DispositionIdle
    /\ extraction = ExtractionIdle

FilterKeys == {"entailed", "neutral", "contradiction"}
ChunkFilterKeys ==
    {"relevant", "irrelevant", "harming", "grounded", "unused", "contradicting"}

NextConnectors ==
    \/ Press(ToggleGTClaimsExpanded)
    \/ Press(ToggleResponseClaimsExpanded)
    \/ Press(ToggleChunksExpanded)
    \/ Press(ToggleConnectors)
    \/ \E k \in ChunkFilterKeys : Press(ToggleChunkFilter(k))
    \/ \E k \in FilterKeys : Press(ToggleGtClaimFilter(k))
    \/ \E k \in FilterKeys : Press(ToggleRespClaimFilter(k))
    \/ TimerCompute
    \/ Resize
    \/ \E el \in Elements(view) : MouseEnter(el)
    \/ MouseLeave
    \/ \E i \in PathIndices(overlay.paths) : PathEnter(i)
    \/ SvgMouseLeave

SpecConnectors == InitConnectors /\ [][NextConnectors]_vars

(***************************************************************************)
(* Claims about the response claim flags, the labels and the connectors,   *)
(* checked under SpecConnectors.                                           *)
(***************************************************************************)
\* The relation of chunk j to claim i as the resolver gives it on the full
\* counts of the question.
GtRelation(q, j, i) ==
    relAt(ArrayOrEmpty(q.retrieved2answer), j, i, q.chunkCount, Len(q.gtClaims))

RespRelation(q, j, i) ==
    relAt(ArrayOrEmpty(q.retrieved2response), j, i, q.chunkCount, Len(q.respClaims))

RenderedRespClaims ==
    {k \in 1..Len(view.respClaims) : ~view.respClaims[k].hidden}

RenderedGtClaims ==
    {k \in 1..Len(view.gtClaims) : ~view.gtClaims[k].hidden}

RenderedChunks == {k \in 1..Len(view.chunks) : ~view.chunks[k].hidden}

\* C11 (as stated): for every response claim r shown, with supported(r) = some
\* chunk j in 0..chunkCount-1 resolves to Entailment at (j, r) in the
\* response matrix: selfKnowledge(r) iff disposition(r) = entailed and not
\* supported(r); hallucination(r) iff disposition(r) # entailed and not
\* supported(r); never both flags, and both unset iff supported(r).
C11_ResponseClaimFlags ==
    \A k \in RenderedRespClaims :
        LET row == view.respClaims[k]
            supported == \E j \in ChunkIndices(question) :
                            RespRelation(question, j, k - 1) = Entailment
        IN  /\ row.showSelfKnowledge <=> (row.status = "entailed" /\ ~supported)
            /\ row.showHallucination <=> (row.status # "entailed" /\ ~supported)
            /\ ~(row.showSelfKnowledge /\ row.showHallucination)
            /\ (~row.showSelfKnowledge /\ ~row.showHallucination) <=> supported

\* Labels that differ from a label of the enum by letter case only.
CaseVariants == {"entailment"}

\* arr[i] of a claim-level relation array, as mapDirectStatuses reads it.
DirectCell(relations, i) ==
    LET raw == EntryAt(IF relations.isArr THEN relations.rows ELSE <<>>, i)
    IN  IF raw.isArr THEN CellAt(raw, 0) ELSE raw.v

\* The claim list of a chunk's set holds the claim with the given index.
Holds(set, claims, i) == \E p \in 1..Len(set.cells) : set.cells[p] = claims[i + 1]

\* C12 (as stated): a relation cell that differs from 'Entailment',
\* 'Contradiction' or 'Neutral' by letter case only is never treated as that
\* relation: it gives no 'entailed' or 'contradiction' disposition, is no
\* chunk support in the scan of the response claim flags, is in no chunk's
\* entailment or contradiction set, and produces no connector.
C12_CaseSensitiveLabels ==
    /\ \A k \in RenderedGtClaims :
          DirectCell(question.response2answer, k - 1) \in CaseVariants
             => view.gtClaims[k].status = "neutral"
    /\ \A k \in RenderedRespClaims :
          /\ DirectCell(question.answer2response, k - 1) \in CaseVariants
                => view.respClaims[k].status = "neutral"
          /\ (\A j \in ChunkIndices(question) :
                 RespRelation(question, j, k - 1) \in CaseVariants \cup {Undefined})
                => ~view.respClaims[k].supportedByChunk
    /\ \A c \in ShownChunks :
          /\ \A i \in 0..(Len(question.gtClaims) - 1) :
                GtRelation(question, c - 1, i) \in CaseVariants =>
                   /\ ~Holds(view.chunks[c].sets.gt.entailments, question.gtClaims, i)
                   /\ ~Holds(view.chunks[c].sets.gt.contradictions, question.gtClaims, i)
          /\ \A i \in 0..(Len(question.respClaims) - 1) :
                RespRelation(question, c - 1, i) \in CaseVariants =>
                   /\ ~Holds(view.chunks[c].sets.response.entailments,
                             question.respClaims, i)
                   /\ ~Holds(view.chunks[c].sets.response.contradictions,
                             question.respClaims, i)
    /\ \A i \in PathIndices(overlay.paths) :
          PathAt(overlay.paths, i).rel \notin CaseVariants

\* The connectors are those of a compute that ran after the last render.
Computed == overlay.mounted /\ Len(overlay.timers) = 0

HasPath(src, dst) ==
    \E i \in PathIndices(overlay.paths) :
        PathAt(overlay.paths, i).src = src /\ PathAt(overlay.paths, i).dst = dst

Decided(rel) == rel \in {Entailment, Contradiction}

\* C13 (as stated): after a compute, for every rendered ground-truth claim g
\* (original index) and rendered chunk c there is an edge gt[g] -> chunk[c]
\* iff relAt(retrieved2answer, c, g, chunkCount, number of GT claims) is
\* Entailment or Contradiction, likewise chunk[c] -> resp[r] on the response
\* matrix, in every filter state; and the edges match the claim sets the
\* classifier computes for the chunk.
C13_EdgesAgreeWithResolver ==
    Computed =>
       \A c \in RenderedChunks :
          /\ \A g \in RenderedGtClaims :
                /\ HasPath(Node("gt", g - 1), Node("chunk", c - 1))
                      <=> Decided(GtRelation(question, c - 1, g - 1))
                /\ HasPath(Node("gt", g - 1), Node("chunk", c - 1))
                      <=> \/ Holds(view.chunks[c].sets.gt.entailments,
                                   question.gtClaims, g - 1)
                          \/ Holds(view.chunks[c].sets.gt.contradictions,
                                   question.gtClaims, g - 1)
          /\ \A r \in RenderedRespClaims :
                /\ HasPath(Node("chunk", c - 1), Node("resp", r - 1))
                      <=> Decided(RespRelation(question, c - 1, r - 1))
                /\ HasPath(Node("chunk", c - 1), Node("resp", r - 1))
                      <=> \/ Holds(view.chunks[c].sets.response.entailments,
                                   question.respClaims, r - 1)
                          \/ Holds(view.chunks[c].sets.response.contradictions,
                                   question.respClaims, r - 1)

\* Every cell of the matrix is 'Neutral', or the matrix has no cell at all.
OnlyNeutral(matrix) ==
    matrix.isArr =>
       \A r \in 1..Len(matrix.rows) :
          matrix.rows[r].isArr =>
             \A c \in 1..Len(matrix.rows[r].cells) : matrix.rows[r].cells[c] = Neutral

\* C14: if every cell of both relation matrices is 'Neutral' (or
\* unresolvable), the connector list is empty after any compute, for every
\* combination of expanded sections and filters.
C14_NoEdgesFromNeutrals ==
    (OnlyNeutral(question.retrieved2answer) /\ OnlyNeutral(question.retrieved2response))
       => overlay.paths = <<>>

\* Compute ran over rendered claims of both lists and rendered chunks of a
\* question whose matrices hold 'Neutral' cells only, and drew nothing.
C14_Witness ==
    /\ Computed
    /\ OnlyNeutral(question.retrieved2answer)
    /\ OnlyNeutral(question.retrieved2response)
    /\ question.retrieved2answer.isArr /\ Len(question.retrieved2answer.rows) > 0
    /\ question.retrieved2response.isArr /\ Len(question.retrieved2response.rows) > 0
    /\ Len(gtNodes(view)) > 0 /\ Len(respNodes(view)) > 0 /\ Len(chunkNodes(view)) > 0
    /\ overlay.listeners # {}
    /\ overlay.paths = <<>>

\* (a, b) before (c, d) in the order by first then second component.
Before(a, b, c, d) == a < c \/ (a = c /\ b < d)

\* C15: a compute on the input the stored list was computed from gives the
\* same list, element by element; the gt -> chunk edges are ordered by claim
\* index then chunk index, and the chunk -> resp edges by claim index then
\* chunk index.
C15_StableEdgeOrder ==
    Computed =>
       /\ overlay.paths = ComputePaths(question, view)
       /\ compute(overlay, question, view, ShowProps(view)).paths = overlay.paths
       /\ \A i, j \in PathIndices(overlay.paths) :
             LET p == PathAt(overlay.paths, i)
                 n == PathAt(overlay.paths, j)
             IN  (i < j /\ p.kind = n.kind) =>
                    IF p.kind = "gtChunk"
                    THEN Before(p.src.index, p.dst.index, n.src.index, n.dst.index)
                    ELSE Before(p.dst.index, p.src.index, n.dst.index, n.src.index)

\* Connectors of two ground-truth claims into two chunks were drawn, and of
\* two chunks into a response claim.
C15_Witness ==
    /\ Computed
    /\ \A g \in {0, 1}, c \in {0, 1} : HasPath(Node("gt", g), Node("chunk", c))
    /\ \A c \in {0, 1} : HasPath(Node("chunk", c), Node("resp", 0))

\* The pointer has entered an element whose listener is of the compute that
\* ran after the last render, and nothing has happened since.
HoverSettled == Computed /\ overlay.fresh /\ overlay.hovered # NoNode

Touches(p, node) == p.src = node \/ p.dst = node

Other(p, node) == IF p.src = node THEN p.dst ELSE p.src

\* C16 (as stated): hovering the rendered element of the GT claim with
\* original index g selects exactly the edges gt[g] -> chunk[c] and every
\* chunk[c] -> resp[r] edge whose chunk is the target of one of those, in
\* every filter state.
C16_HoverOnGtClaim ==
    (HoverSettled /\ overlay.hovered.col = "gt") =>
       LET paths == overlay.paths
           direct == {i \in PathIndices(paths) :
                         PathAt(paths, i).src = overlay.hovered}
           chunks == {PathAt(paths, i).dst : i \in direct}
           chain == {i \in PathIndices(paths) : PathAt(paths, i).src \in chunks}
       IN  overlay.hoverPathSet = direct \cup chain

\* C17 (as stated): for every hovered node the selected edge set is (a) all
\* edges touching the node, united with (b) all edges touching a node that is
\* the other endpoint of an edge of (a).
C17_TwoHopNeighbourhood ==
    HoverSettled =>
       LET paths == overlay.paths
           a == {i \in PathIndices(paths) : Touches(PathAt(paths, i), overlay.hovered)}
           mid == {Other(PathAt(paths, i), overlay.hovered) : i \in a}
           b == {i \in PathIndices(paths) :
                    \E node \in mid : Touches(PathAt(paths, i), node)}
       IN  overlay.hoverPathSet = a \cup b

(***************************************************************************)
(* Claim extraction: extractClaims on a raw claim payload.                 *)
(* A JavaScript value is a record tagged with its type.  A string value    *)
(* carries the sequence of its characters, each a one-character string;    *)
(* the em dash of the tuple separator is written EmDash.                   *)
(***************************************************************************)
UndefinedValue == [t |-> "undefined"]

NullValue == [t |-> "null"]

JsBoolean(b) == [t |-> "boolean", b |-> b]

JsString(s) == [t |-> "string", s |-> s]

JsArray(items) == [t |-> "array", items |-> items]

\* An object, by the fields extractClaims reads; a field the object does not
\* have reads as undefined.
JsObject(claims, text, claim, content, value) ==
    [t |-> "object", claims |-> claims, text |-> text, claim |-> claim,
     content |-> content, value |-> value]

EmptyObject ==
    JsObject(UndefinedValue, UndefinedValue, UndefinedValue, UndefinedValue, UndefinedValue)

\* The array of the strings of a list.
StringArray(strings) ==
    JsArray([k \in 1..Len(strings) |-> JsString(strings[k])])

EmDash == "EMDASH"

\* The characters String.prototype.trim removes and JSON skips between
\* tokens, among the characters of the model.
WhiteSpace == {" ", "\n", "\t", "\r"}

\* s.trim()
trim(s) ==
    LET RECURSIVE trimStart(_), trimEnd(_)
        trimStart(x) ==
            IF Len(x) > 0 /\ Head(x) \in WhiteSpace THEN trimStart(Tail(x)) ELSE x
        trimEnd(x) ==
            IF Len(x) > 0 /\ x[Len(x)] \in WhiteSpace
            THEN trimEnd(SubSeq(x, 1, Len(x) - 1))
            ELSE x
    IN  trimEnd(trimStart(s))

includes(s, c) == \E k \in 1..Len(s) : s[k] = c

\* s.split(sep) for a one-character separator: cur is the piece being read,
\* out the pieces read so far.
split(s, sep) ==
    LET RECURSIVE splitFrom(_, _, _)
        splitFrom(x, cur, out) ==
            IF Len(x) = 0 THEN Append(out, cur)
            ELSE IF Head(x) = sep
                 THEN splitFrom(Tail(x), <<>>, Append(out, cur))
                 ELSE splitFrom(Tail(x), Append(cur, Head(x)), out)
    IN  splitFrom(s, <<>>, <<>>)

\* parts.join(sep) on a list of strings.
RECURSIVE join(_, _)
join(parts, sep) ==
    IF Len(parts) = 0 THEN <<>>
    ELSE IF Len(parts) = 1 THEN parts[1]
         ELSE parts[1] \o sep \o join(Tail(parts), sep)

\* !raw
Not(raw) ==
    \/ raw.t \in {"undefined", "null"}
    \/ raw.t = "string" /\ Len(raw.s) = 0
    \/ raw.t = "boolean" /\ ~raw.b

isArray(raw) == raw.t = "array"

\* typeof raw === 'object', null included as in JavaScript.
TypeofObject(raw) == raw.t \in {"object", "array", "null"}

Nullish(v) == v.t \in {"undefined", "null"}

\* a ?? b
Coalesce(a, b) == IF Nullish(a) THEN b ELSE a

\* String(v): the characters of the string form of a value.
RECURSIVE String(_)
String(v) ==
    CASE v.t = "string" -> v.s
      [] v.t = "undefined" -> <<"u", "n", "d", "e", "f", "i", "n", "e", "d">>
      [] v.t = "null" -> <<"n", "u", "l", "l">>
      [] v.t = "boolean" -> IF v.b THEN <<"t", "r", "u", "e">>
                                   ELSE <<"f", "a", "l", "s", "e">>
      [] v.t = "array" ->
            join([k \in 1..Len(v.items) |->
                     IF Nullish(v.items[k]) THEN <<>> ELSE String(v.items[k])],
                 <<",">>)
      [] v.t = "object" ->
            <<"[", "o", "b", "j", "e", "c", "t", " ",
              "O", "b", "j", "e", "c", "t", "]">>

\* The text fields of an object, in the order the code tries them.
TextField(p, fallback) ==
    Coalesce(p.text, Coalesce(p.claim, Coalesce(p.content,
        Coalesce(p.value, fallback))))

\* typeof s === 'string' && s.trim().length > 0
NonBlank_NonEmpty(v) == v.t = "string" /\ Len(v.s) > 0

NonBlank(v) == v.t = "string" /\ Len(trim(v.s)) > 0

\* One element of a tuple claim.
TuplePart(p) ==
    IF p.t = "string" THEN p
    ELSE IF ~Not(p) /\ TypeofObject(p)
         THEN \* an array has none of the four fields
              TextField(IF isArray(p) THEN EmptyObject ELSE p, JsString(<<>>))
    ELSE JsString(String(Coalesce(p, JsString(<<>>))))

\* What one item of the array appends to out.
Pushed(item) ==
    IF item.t = "string" THEN <<item>>
    ELSE IF isArray(item) THEN
        LET parts == SelectSeq([k \in 1..Len(item.items) |-> TuplePart(item.items[k])],
                               NonBlank)
        IN  IF Len(parts) > 0
            THEN <<JsString(join([k \in 1..Len(parts) |-> parts[k].s],
                                 <<" ", EmDash, " ">>))>>
            ELSE <<>>
    ELSE IF ~Not(item) /\ TypeofObject(item) THEN
        LET cand == TextField(item, NullValue)
        IN  IF ~Nullish(cand) THEN <<JsString(String(cand))>> ELSE <<>>
    ELSE <<>>

RECURSIVE PushAll(_, _)
PushAll(items, out) ==
    IF Len(items) = 0 THEN out
    ELSE PushAll(Tail(items), out \o Pushed(Head(items)))

\* The strings of a list of string values.
StringsOf(values) == [k \in 1..Len(values) |-> values[k].s]

(***************************************************************************)
(* JSON.parse and JSON.stringify on texts without numbers and without the  *)
(* escapes \b, \f and \u.                                                  *)
(***************************************************************************)
ParseFail == [ok |-> FALSE]

\* JSON.parse(text); a failure is the SyntaxError.  A parse step returns the
\* value read and the position after it, or fails.
JSONParse(text) ==
    LET RECURSIVE SkipWhiteSpace(_), ParseString(_, _), ParseValue(_),
                  ParseElements(_, _), ParseMembers(_, _)
        Parsed(v, pos) == [ok |-> TRUE, value |-> v, pos |-> pos]
        \* The object with one more member read; a repeated key keeps the
        \* later value, a key extractClaims never reads is dropped.
        WithMember(obj, key, v) ==
            CASE key = <<"c", "l", "a", "i", "m", "s">> -> [obj EXCEPT !.claims = v]
              [] key = <<"t", "e", "x", "t">> -> [obj EXCEPT !.text = v]
              [] key = <<"c", "l", "a", "i", "m">> -> [obj EXCEPT !.claim = v]
              [] key = <<"c", "o", "n", "t", "e", "n", "t">> ->
                    [obj EXCEPT !.content = v]
              [] key = <<"v", "a", "l", "u", "e">> -> [obj EXCEPT !.value = v]
              [] OTHER -> obj
        CharAt(pos) == IF pos <= Len(text) THEN text[pos] ELSE "EOF"
        SkipWhiteSpace(pos) ==
            IF CharAt(pos) \in WhiteSpace THEN SkipWhiteSpace(pos + 1) ELSE pos
        \* The character an escape sequence stands for.
        Unescape(e) ==
            CASE e = "n" -> "\n"
              [] e = "t" -> "\t"
              [] e = "r" -> "\r"
              [] OTHER -> e
        \* The characters of a string literal from pos on, up to the closing
        \* quote.
        ParseString(pos, acc) ==
            IF pos > Len(text) THEN ParseFail
            ELSE IF text[pos] = "\"" THEN Parsed(JsString(acc), pos + 1)
            ELSE IF text[pos] = "\\" THEN
                IF CharAt(pos + 1) \in {"\"", "\\", "/", "n", "t", "r"}
                THEN ParseString(pos + 2, Append(acc, Unescape(text[pos + 1])))
                ELSE ParseFail
            ELSE IF text[pos] \in {"\n", "\t", "\r"} THEN ParseFail
            ELSE ParseString(pos + 1, Append(acc, text[pos]))
        \* Whether word stands at pos.
        Literal(pos, word) ==
            /\ pos + Len(word) - 1 <= Len(text)
            /\ SubSeq(text, pos, pos + Len(word) - 1) = word
        \* The value that starts at or after at, white space skipped.
        ParseValue(at) ==
            LET pos == SkipWhiteSpace(at)
                c == CharAt(pos)
                next == SkipWhiteSpace(pos + 1)
            IN  CASE c = "\"" -> ParseString(pos + 1, <<>>)
                  [] c = "[" -> IF CharAt(next) = "]"
                                THEN Parsed(JsArray(<<>>), next + 1)
                                ELSE ParseElements(next, <<>>)
                  [] c = "{" -> IF CharAt(next) = "}"
                                THEN Parsed(EmptyObject, next + 1)
                                ELSE ParseMembers(next, EmptyObject)
                  [] Literal(pos, <<"n", "u", "l", "l">>) -> Parsed(NullValue, pos + 4)
                  [] Literal(pos, <<"t", "r", "u", "e">>) ->
                        Parsed(JsBoolean(TRUE), pos + 4)
                  [] Literal(pos, <<"f", "a", "l", "s", "e">>) ->
                        Parsed(JsBoolean(FALSE), pos + 5)
                  [] OTHER -> ParseFail
        \* The elements of an array from pos on, after the items already read.
        ParseElements(pos, items) ==
            LET r == ParseValue(pos)
            IN  IF ~r.ok THEN ParseFail
                ELSE LET after == SkipWhiteSpace(r.pos)
                         c == CharAt(after)
                     IN  IF c = "," THEN ParseElements(after + 1, Append(items, r.value))
                         ELSE IF c = "]"
                              THEN Parsed(JsArray(Append(items, r.value)), after + 1)
                              ELSE ParseFail
        \* The members of an object from at on, added to obj.
        ParseMembers(at, obj) ==
            LET pos == SkipWhiteSpace(at)
                k == IF CharAt(pos) = "\"" THEN ParseString(pos + 1, <<>>)
                                            ELSE ParseFail
            IN  IF ~k.ok THEN ParseFail
                ELSE LET colon == SkipWhiteSpace(k.pos)
                         r == IF CharAt(colon) = ":" THEN ParseValue(colon + 1)
                                                     ELSE ParseFail
                     IN  IF ~r.ok THEN ParseFail
                         ELSE LET after == SkipWhiteSpace(r.pos)
                                  c == CharAt(after)
                                  o2 == WithMember(obj, k.value.s, r.value)
                              IN  IF c = "," THEN ParseMembers(after + 1, o2)
                                  ELSE IF c = "}" THEN Parsed(o2, after + 1)
                                  ELSE ParseFail
        top == ParseValue(1)
    IN  IF top.ok /\ SkipWhiteSpace(top.pos) > Len(text) THEN top ELSE ParseFail

\* JSON.stringify(v) for strings, arrays, null and booleans; undefined in an
\* array is written null.
RECURSIVE JSONStringify(_)
JSONStringify(v) ==
    LET \* The characters written for one character of a string.
        EscapeChar(c) ==
            CASE c = "\"" -> <<"\\", "\"">>
              [] c = "\\" -> <<"\\", "\\">>
              [] c = "\n" -> <<"\\", "n">>
              [] c = "\t" -> <<"\\", "t">>
              [] c = "\r" -> <<"\\", "r">>
              [] OTHER -> <<c>>
    IN
    CASE v.t = "string" ->
            <<"\"">> \o join([k \in 1..Len(v.s) |-> EscapeChar(v.s[k])], <<>>)
                     \o <<"\"">>
      [] v.t = "array" ->
            <<"[">> \o join([k \in 1..Len(v.items) |-> JSONStringify(v.items[k])],
                            <<",">>) \o <<"]">>
      [] v.t = "boolean" -> String(v)
      [] OTHER -> <<"n", "u", "l", "l">>

\* The lines of a text, trimmed, the empty ones dropped.
Lines(trimmed) ==
    LET pieces == split(trimmed, "\n")
        NonEmpty(s) == Len(s) > 0
    IN  SelectSeq([k \in 1..Len(pieces) |-> trim(pieces[k])], NonEmpty)

\* trimmed.startsWith(open) && trimmed.endsWith(close)
Enclosed(trimmed, open, close) ==
    Len(trimmed) > 0 /\ trimmed[1] = open /\ trimmed[Len(trimmed)] = close

\* The text looks like a JSON array or object.
Bracketed_BracesOnly(trimmed) == Enclosed(trimmed, "{", "}")

Bracketed(trimmed) ==
    Enclosed(trimmed, "[", "]") \/ Enclosed(trimmed, "{", "}")

\* extractClaims(raw): the list of claim strings of a raw payload.
RECURSIVE extractClaims(_)
extractClaims(raw) ==
    IF Not(raw) THEN <<>>
    ELSE IF TypeofObject(raw) /\ ~isArray(raw) /\ isArray(raw.claims)
    THEN extractClaims(raw.claims)
    ELSE IF isArray(raw)
    THEN StringsOf(SelectSeq(PushAll(raw.items, <<>>), NonBlank))
    ELSE IF raw.t = "string" THEN
        LET trimmed == trim(raw.s)
            parsed == IF Bracketed(trimmed) THEN JSONParse(trimmed) ELSE ParseFail
        IN  IF parsed.ok THEN extractClaims(parsed.value)
            ELSE IF includes(trimmed, "\n") THEN Lines(trimmed)
            ELSE <<>>
    ELSE <<>>

(***************************************************************************)
(* Extraction harness: extractClaims on a payload, on its JSON text, on a  *)
(* { claims: ... } wrapper around it, and on its own result.               *)
(***************************************************************************)
MaxItems == 2   \* items of a claim array
MaxChars == 2   \* characters of a claim string
MaxText == 4    \* characters of a raw text
MaxWrap == 2    \* nested { claims: ... } wrappers

\* The payloads extracted: arrays of strings; arrays with objects, tuples
\* and values the array loop skips; raw texts, among them broken JSON and
\* newline-delimited lines; texts of objects, one of them broken; values
\* that are none of these.
ExtractInputs ==
    LET ClaimChars == {"n", " ", "\n", "\"", "\\"}
        TextChars == ClaimChars \cup {"[", "]"}
        ClaimStrings == SeqsUpTo(ClaimChars, MaxChars)
        n == JsString(<<"n">>)
        WithText(v) == [EmptyObject EXCEPT !.text = v]
        TupleParts ==
            {n, JsString(<<" ">>), NullValue, JsBoolean(TRUE), WithText(n),
             EmptyObject, JsArray(<<>>)}
        ObjectItems ==
            {NullValue, UndefinedValue, JsBoolean(TRUE), n, EmptyObject,
             WithText(n), WithText(JsString(<<" ">>)),
             [EmptyObject EXCEPT !.text = NullValue, !.claim = n],
             [EmptyObject EXCEPT !.content = JsArray(<<n, NullValue>>)],
             [EmptyObject EXCEPT !.value = JsBoolean(FALSE)],
             [EmptyObject EXCEPT !.value = EmptyObject]}
        ObjectTexts ==
            {<<"{", "\"", "c", "l", "a", "i", "m", "s", "\"", ":",
               "[", "\"", "n", "\"", "]", "}">>,
             <<"{", "\"", "t", "e", "x", "t", "\"", ":", "\"", "n", "\"", "}">>,
             <<"[", "{", "\"", "t", "e", "x", "t", "\"", ":", "\"", "n", "\"",
               ",", "\"", "i", "d", "\"", ":", "n", "u", "l", "l", "}", "]">>,
             <<"{", "}">>,
             <<"{", "\n", "n", "}">>}
    IN  {StringArray(xs) : xs \in SeqsUpTo(ClaimStrings, MaxItems)}
        \cup {JsArray(items) : items \in SeqsUpTo(ObjectItems, MaxItems)}
        \cup {JsArray(<<JsArray(parts)>>) : parts \in SeqsUpTo(TupleParts, MaxItems)}
        \cup {JsString(s) : s \in SeqsUpTo(TextChars, MaxText) \cup ObjectTexts}
        \cup {NullValue, UndefinedValue, JsBoolean(TRUE), JsBoolean(FALSE),
              EmptyObject}

IsStringList(v) ==
    isArray(v) /\ \A k \in 1..Len(v.items) : v.items[k].t = "string"

\* { claims: X }
Wrapper(X) == [EmptyObject EXCEPT !.claims = X]

\* The payload arrives as the JSON text of the array.
Stringify ==
    /\ extraction.phase = "input"
    /\ extraction.raw = extraction.source
    /\ IsStringList(extraction.source)
    /\ extraction' = [extraction EXCEPT
         !.raw = JsString(JSONStringify(extraction.source))]
    /\ UNCHANGED <<resolver, relevance, disposition, question, ui, view,
                   overlay, clicks>>

\* The payload arrives inside a { claims: ... } object.
Wrap ==
    /\ extraction.phase = "input"
    /\ extraction.wraps < MaxWrap
    /\ extraction' = [extraction EXCEPT
         !.raw = Wrapper(extraction.raw), !.wraps = @ + 1]
    /\ UNCHANGED <<resolver, relevance, disposition, question, ui, view,
                   overlay, clicks>>

Extract ==
    /\ extraction.phase = "input"
    /\ extraction' = [extraction EXCEPT
         !.phase = "returned", !.out = extractClaims(extraction.raw)]
    /\ UNCHANGED <<resolver, relevance, disposition, question, ui, view,
                   overlay, clicks>>

\* extractClaims on the list it returned.
ExtractAgain ==
    /\ extraction.phase = "returned"
    /\ extraction' = [extraction EXCEPT
         !.phase = "again",
         !.raw = StringArray(extraction.out),
         !.prev = extraction.out,
         !.out = extractClaims(StringArray(extraction.out))]
    /\ UNCHANGED <<resolver, relevance, disposition, question, ui, view,
                   overlay, clicks>>

InitExtract ==
    /\ \E raw \in ExtractInputs :
         extraction = [phase |-> "input", source |-> raw, raw |-> raw,
                       wraps |-> 0, out |-> <<>>, prev |-> <<>>]
    /\ resolver = ResolverIdle
    /\ relevance = RelevanceIdle
    /\ disposition = DispositionIdle
    /\ question = QuestionIdle
    /\ ui = UiIdle
    /\ view = ViewIdle
    /\ overlay = OverlayIdle
    /\ clicks = 0

NextExtract == Stringify \/ Wrap \/ Extract \/ ExtractAgain

SpecExtract == InitExtract /\ [][NextExtract]_vars

(***************************************************************************)
(* Claims about claim extraction, checked under SpecExtract.               *)
(***************************************************************************)
Blank(s) == \A k \in 1..Len(s) : s[k] \in WhiteSpace

NotBlank(s) == ~Blank(s)

SourceStrings == StringsOf(extraction.source.items)

Returned == extraction.phase = "returned"

\* C18: on a list of strings extractClaims returns the list without its empty
\* and blank strings, in the same order; every element of every result is a
\* non-blank string; extracting from a result returns that result.
C18_ExtractStringList ==
    /\ (Returned /\ extraction.raw = extraction.source
          /\ IsStringList(extraction.source))
          => extraction.out = SelectSeq(SourceStrings, NotBlank)
    /\ \A k \in 1..Len(extraction.out) : NotBlank(extraction.out[k])
    /\ extraction.phase = "again" => extraction.out = extraction.prev

\* A list with a blank string before a string with a quote in it has been
\* extracted, and the result extracted again.
C18_Witness ==
    /\ extraction.phase = "again"
    /\ IsStringList(extraction.source)
    /\ SourceStrings = <<<<" ", "\n">>, <<"n", "\"">>>>
    /\ extraction.out = <<<<"n", "\"">>>>

\* C19: extractClaims on the JSON text of a list of strings returns what it
\* returns on the list.
C19_JsonRoundTrip ==
    (Returned /\ IsStringList(extraction.source)
       /\ extraction.raw = JsString(JSONStringify(extraction.source)))
       => extraction.out = extractClaims(extraction.source)

\* The JSON text of a list with a backslash, a quote and a newline in its
\* strings has been extracted.
C19_Witness ==
    /\ Returned
    /\ IsStringList(extraction.source)
    /\ extraction.raw = JsString(JSONStringify(extraction.source))
    /\ SourceStrings = <<<<"\\", "n">>, <<"\"", "\n">>>>
    /\ extraction.out = SourceStrings

\* C20 (as stated): extractClaims on { claims: X } returns what it returns
\* on X, for X an array, a JSON text, a newline-delimited text or another
\* wrapper.
C20_WrapperTransparent ==
    (Returned /\ extraction.wraps > 0)
       => extraction.out = extractClaims(extraction.raw.claims)

\* C21 (as stated): on a string that starts with '[' or '{', ends with the
\* matching bracket and does not parse as JSON, extractClaims returns the
\* empty list, with or without newlines in the text.
C21_MalformedJsonText ==
    (Returned /\ extraction.raw.t = "string"
       /\ Bracketed(extraction.raw.s)
       /\ ~JSONParse(extraction.raw.s).ok)
       => extraction.out = <<>>

\* C28 (as stated): the claim at position i of the extracted list is the
\* claim of element i of the raw list, so that dropping an empty element
\* shifts no claim after it.
C28_IndexAlignment ==
    (Returned /\ extraction.raw = extraction.source
       /\ IsStringList(extraction.source))
       => \A i \in 1..Len(extraction.out) : extraction.out[i] = SourceStrings[i]

(***************************************************************************)
(* The connectors under hover, recomputation and filtering.                *)
(***************************************************************************)

\* C22 (as stated): every edge of the connector list has the relation
\* 'Entailment' or 'Contradiction'; a cell that holds anything else draws no
\* edge.
C22_EdgeRelations ==
    \A i \in PathIndices(overlay.paths) :
        PathAt(overlay.paths, i).rel \in {Entailment, Contradiction}

\* The indices the highlight effect styles (ClaimChunkOverlay.tsx:252-253).
Highlighted == overlay.hoverPathSet \cup overlay.hoverIdx

\* The edges within two hops of a node: those that touch it and those that
\* share an endpoint with one that touches it.
Neighbourhood(paths, node) ==
    {i \in PathIndices(paths) :
        \E d \in PathIndices(paths) :
           /\ Touches(PathAt(paths, d), node)
           /\ \/ i = d
              \/ Touches(PathAt(paths, i), Other(PathAt(paths, d), node))}

\* C23 (as stated): in every state every highlighted index is an index of
\* the current edge list, and its edge is in the neighbourhood of the node
\* the pointer is on (the edge itself when the pointer is on an edge).
C23_HighlightNeverStale ==
    \A i \in Highlighted :
        /\ i \in PathIndices(overlay.paths)
        /\ IF overlay.hovered.col = "path" THEN i = overlay.hovered.index
           ELSE i \in Neighbourhood(overlay.paths, overlay.hovered)

\* The item of a node is in the document: its section is expanded and no
\* filter hides it.
InDocument(node) ==
    IF node.col = "gt" THEN node.index + 1 \in RenderedGtClaims
    ELSE IF node.col = "chunk" THEN node.index + 1 \in RenderedChunks
    ELSE node.col = "resp" /\ node.index + 1 \in RenderedRespClaims

PathsOfKind(kind) ==
    {i \in PathIndices(overlay.paths) : PathAt(overlay.paths, i).kind = kind}

PartialGraph ==
    /\ \A i \in PathIndices(overlay.paths) :
          /\ InDocument(PathAt(overlay.paths, i).src)
          /\ InDocument(PathAt(overlay.paths, i).dst)
    /\ ~ui.isGTClaimsExpanded => PathsOfKind("gtChunk") = {}
    /\ ~ui.isResponseClaimsExpanded => PathsOfKind("chunkResp") = {}
    /\ ~ui.isChunksExpanded => overlay.paths = <<>>

\* C25: after a compute, deferred or on resize, both ends of every edge are
\* items in the document: no gt -> chunk edge with the GT claims collapsed,
\* no chunk -> resp edge with the response claims collapsed, no edge with
\* the chunks collapsed, and no edge at a claim or chunk a filter hides.
C25_PartialGraphs == [][(TimerCompute \/ Resize) => PartialGraph']_vars

\* The computed graph of a question that has gt -> chunk edges when all is
\* expanded holds chunk -> resp edges only: the GT claims are collapsed.
C25_Witness ==
    /\ Computed
    /\ ~ui.isGTClaimsExpanded
    /\ PathsOfKind("chunkResp") # {}
    /\ \E i \in PathIndices(ComputePaths(question,
                   RenderView(question, [ui EXCEPT !.isGTClaimsExpanded = TRUE]))) :
          PathAt(ComputePaths(question,
                   RenderView(question, [ui EXCEPT !.isGTClaimsExpanded = TRUE])),
                 i).kind = "gtChunk"

\* A step of the pointer over the connectors or the items.
HoverStep ==
    \/ \E el \in Elements(view) : MouseEnter(el)
    \/ MouseLeave
    \/ \E i \in PathIndices(overlay.paths) : PathEnter(i)
    \/ SvgMouseLeave

\* C26: a hover enter or leave, on an item or on a path, changes nothing
\* but hoverPathSet and hoverIdx: the edge list keeps its edges, their order
\* and their fields, and a leave empties the selection made from an item.
C26_HoverKeepsEdges ==
    [][HoverStep =>
         /\ overlay'.paths = overlay.paths
         /\ overlay'.listeners = overlay.listeners
         /\ overlay'.timers = overlay.timers
         /\ overlay'.mounted = overlay.mounted
         /\ view' = view /\ ui' = ui
         /\ (MouseLeave \/ SvgMouseLeave) => overlay'.hoverPathSet = {}]_vars

\* The pointer is on an item whose listener selected some, not all, of the
\* edges.
C26_Witness ==
    /\ overlay.hovered \in Elements(view)
    /\ overlay.hoverPathSet # {}
    /\ overlay.hoverPathSet # PathIndices(overlay.paths)

\* C27 (as stated): a chunk is shown iff the filter of its quality status
\* is on and the filter of its usage status, classified with contradictions
\* first, is on; the other filters do not matter.
C27_ChunkVisibility ==
    \A k \in 1..Len(view.chunks) :
        (~view.chunks[k].hidden)
           <=> (/\ ui.chunkFilters[view.chunks[k].status]
                /\ ui.chunkFilters[view.chunks[k].usage])

\* The number of chunk rows with a quality status, and with a usage status.
WithStatus(status) ==
    Cardinality({k \in 1..Len(view.chunks) : view.chunks[k].status = status})

WithUsage(usage) ==
    Cardinality({k \in 1..Len(view.chunks) : view.chunks[k].usage = usage})

\* C29 (as stated): the Relevant, Irrelevant and Harming pills count the
\* chunks of each quality status and the Used, Unused and Conflicting pills
\* the chunks of each usage status, so that either triple sums to the number
\* of chunks.
C29_PillCounts ==
    view.chunksShown =>
       /\ view.pills.rel = WithStatus("relevant")
       /\ view.pills.irr = WithStatus("irrelevant")
       /\ view.pills.harm = WithStatus("harming")
       /\ view.pills.grounded = WithUsage("grounded")
       /\ view.pills.unused = WithUsage("unused")
       /\ view.pills.respContr = WithUsage("contradicting")
       /\ view.pills.rel + view.pills.irr + view.pills.harm = Len(view.chunks)
       /\ view.pills.grounded + view.pills.unused + view.pills.respContr
             = Len(view.chunks)

\* C30 (as stated): after any number of computes an element in the
\* document carries one mouseenter / mouseleave pair at most, that of the
\* latest compute: the pairs of a superseded compute, and those of an
\* overlay that was unmounted, are removed.
C30_ListenersDoNotAccumulate == overlay.old = {}

\* The questions with one chunk and one claim in either list, for the
\* behaviours in which the timers of the layout effect fire: a timer set with
\* setTimeout(..., 0) and not cleared runs (ClaimChunkOverlay.tsx:223-227).
InitTimers ==
    /\ InitConnectors
    /\ question.chunkCount = 1
    /\ Len(question.gtClaims) = 1
    /\ Len(question.respClaims) = 1

SpecTimers == InitTimers /\ [][NextConnectors]_vars /\ WF_vars(TimerCompute)

\* At most one timer of the layout effect is set.
OneTimer == Len(overlay.timers) <= 1

\* The timer that is set will call the compute of the last render.
LatestInputs ==
    \A k \in 1..Len(overlay.timers) : overlay.timers[k] = ShowProps(view)

\* The edge list is the one of the document as rendered last.
Settled == overlay.mounted => overlay.paths = ComputePaths(question, view)

\* C24: a change of the overlay's inputs while a deferred compute is pending
\* cancels the pending one: at most one deferred compute is pending at any
\* time, it uses the latest inputs, and once the inputs stop changing the
\* edge list becomes, and stays, the edge list of the latest inputs.
C24_SupersedingCompute ==
    /\ [](OneTimer /\ LatestInputs)
    /\ <>[]Settled

\* The GT claims were expanded before the first deferred compute ran: chunk
\* 0, rendered from the start, has no listener yet, and one timer is set, for
\* the compute that sees the claims.
C24_Witness ==
    /\ overlay.mounted /\ clicks = 1
    /\ ui.isGTClaimsExpanded
    /\ Node("chunk", 0) \in Elements(view)
    /\ overlay.listeners = {} /\ overlay.old = {}
    /\ overlay.timers = <<ShowProps(view)>>
    /\ view.gtShown

====
